---- MODULE Spec2Model ----
(***************************************************************************)
(* Model of the dropout-risk scoring service (backend/app).                *)
(*                                                                         *)
(* Three specifications share the definitions.  Spec: one request is drawn *)
(* in the initial state together with the behaviour of the two             *)
(* collaborators (model capability, record store) and is then handled by   *)
(* predict_simplified or predict_raw.  SpecStore: the running service,     *)
(* with requests arriving one after another, the clock advancing and the   *)
(* admin endpoints reading the store.  SpecSave: one call of               *)
(* save_prediction step by step, with queries in between.                  *)
(*                                                                         *)
(* Number representation.  Probabilities and confidences are fixed-point   *)
(* integers in units of 1/PScale (0.60 is 600).  The heuristic risk_score  *)
(* is a Python float that is always a multiple of 0.5; the local variable  *)
(* is carried in half points (60.0 is 120).  The risk_score field of a     *)
(* PredictionResponse is an integer number of points.                      *)
(***************************************************************************)
EXTENDS Integers, Sequences, FiniteSets, TLC

VARIABLES
    request,      \* the request being handled: endpoint, data, features
    is_loaded,    \* ml_model.is_loaded
    model_out,    \* what ml_model.predict does when it is called
    pc,           \* "pending" before the handler ran, "done" after;
                  \* "idle" before the first request of the service;
                  \* in a save: "flush", "commit", "rollback", then
                  \* "returned" or "raised"
    ml_features,  \* feature vector the handler built (<<>> if none)
    fallback_score, \* risk_score of calculate_fallback_risk in half points
                  \* (-1 if the scorer did not run)
    fallback_raw_score, \* the same local before it is clamped, in half
                  \* points (-1 if the scorer did not run)
    response,     \* what the caller received
    save_calls,   \* arguments of each save_prediction call of the request
    save_raised,  \* whether the last save_prediction call raised
    db,           \* committed contents of the four tables
    now,          \* datetime.utcnow(), in whole days since Monday 1 Jan 2024
    ticks,        \* how many times the clock advanced
    answer,       \* what the last dashboard query returned, and what
                  \* its endpoint replied
    txn           \* rows written by the open transaction of a save, not
                  \* yet committed

vars == <<request, is_loaded, model_out, pc, ml_features, fallback_score,
          fallback_raw_score, response, save_calls, save_raised, db,
          now, ticks, answer, txn>>

----------------------------------------------------------------------------
(* Bounds of the explored inputs *)

\* integer answers range over (0 - OutOfRange) .. (10 + OutOfRange)
OutOfRange == 1

\* longest withdrawal_reasons list explored
MaxReasons == 2

\* most prediction records stored in one run of the service
MaxPredictions == 3

\* most advances of the clock in one run of the service
MaxTicks == 2

----------------------------------------------------------------------------
(* Representation *)

\* fixed-point denominator of dropout_probability / prediction_confidence
PScale == 1000

Max(a, b) == IF a >= b THEN a ELSE b

Min(a, b) == IF a <= b THEN a ELSE b

Abs(a) == IF a >= 0 THEN a ELSE 0 - a

\* Python dict.get(key, default)
Get(map, key, default) == IF key \in DOMAIN map THEN map[key] ELSE default

\* Python int() of a quotient: truncation toward zero
TruncDiv(a, b) == IF a >= 0 THEN a \div b ELSE 0 - ((0 - a) \div b)

\* all sequences over S of length at most n
RECURSIVE SeqsUpTo(_, _)
SeqsUpTo(S, n) ==
    IF n = 0 THEN {<<>>}
    ELSE LET shorter == SeqsUpTo(S, n - 1)
         IN  shorter \cup {Append(s, x) : s \in shorter, x \in S}

----------------------------------------------------------------------------
(* Vocabularies of the assessment form *)

AttendanceVocab == {"always", "often", "sometimes", "rarely", "never"}

OverwhelmVocab == {"never", "rarely", "sometimes", "often", "always"}

FinancialVocab == {"none", "low", "moderate", "high", "very-high"}

AdvisorVocab == {"never", "once-semester", "2-3-semester", "monthly"}

EmploymentVocab == {"not-employed", "part-time", "full-time"}

AcademicYearVocab == {"1st", "2nd", "3rd", "4th"}

StudyHoursVocab == {"1-3", "5-8", "8+"}

\* a value outside every vocabulary
OOV == "unlisted"

\* FEATURE_ORDER, by position
FEATURE_ORDER ==
    << "Curricular units 2nd sem (approved)",
       "Curricular units 1st sem (approved)",
       "Tuition fees up to date",
       "Scholarship holder",
       "Age at enrollment",
       "Debtor",
       "Gender",
       "Application mode" >>

----------------------------------------------------------------------------
(* FeatureMapper: map_form_to_ml_features *)

attendance_to_units ==
    ("always" :> 50) @@ ("often" :> 45) @@ ("sometimes" :> 30) @@
    ("rarely" :> 15) @@ ("never" :> 5)

financial_stress_map ==
    ("none" :> 1) @@ ("low" :> 1) @@ ("moderate" :> 0) @@ ("high" :> 0) @@
    ("very-high" :> 0)

scholarship_scores ==
    ("none" :> 1) @@ ("low" :> 1) @@ ("moderate" :> 0) @@ ("high" :> 0) @@
    ("very-high" :> 0)

academic_year_map ==
    ("1st" :> 18) @@ ("2nd" :> 19) @@ ("3rd" :> 20) @@ ("4th" :> 21)

employment_age_adjustment ==
    ("not-employed" :> 0) @@ ("part-time" :> 1) @@ ("full-time" :> 2)

debtor_map ==
    ("none" :> 0) @@ ("low" :> 0) @@ ("moderate" :> 1) @@ ("high" :> 1) @@
    ("very-high" :> 1)

\* variant: rounds to the nearest unit instead of truncating
ScaledUnits_Rounded(units, performance_satisfaction) ==
    TruncDiv(units * performance_satisfaction + 5, 10)

\* int(units * (performance_satisfaction / 10.0)); the floating-point
\* product truncates to the exact quotient for every satisfaction value
\* in -13 .. 13, which covers the explored range
ScaledUnits(units, performance_satisfaction) ==
    TruncDiv(units * performance_satisfaction, 10)

map_form_to_ml_features(data) ==
    LET curricular_2nd_sem ==
            ScaledUnits(Get(attendance_to_units, data.attendance, 30),
                        data.performance_satisfaction)
        curricular_1st_sem ==
            ScaledUnits(Get(attendance_to_units, data.attendance, 30),
                        data.performance_satisfaction)
        tuition_fees_up_to_date ==
            Get(financial_stress_map, data.financial_stress, 0)
        scholarship_holder ==
            Get(scholarship_scores, data.financial_stress, 0)
        age_base == Get(academic_year_map, data.academic_year, 19)
        age_at_enrollment ==
            age_base
            + Get(employment_age_adjustment, data.employment_status, 0)
        debtor == Get(debtor_map, data.financial_stress, 0)
        gender == IF data.study_hours \in {"8+", "5-8"} THEN 0 ELSE 1
        application_mode ==
            IF data.employment_status = "full-time"
               /\ data.career_alignment < 5
            THEN 2
            ELSE IF data.career_alignment >= 8 THEN 1 ELSE 1
    IN  << curricular_2nd_sem, curricular_1st_sem, tuition_fees_up_to_date,
           scholarship_holder, age_at_enrollment, debtor, gender,
           application_mode >>

----------------------------------------------------------------------------
(* Response schema: RiskFactor, Recommendation, PredictionResponse.        *)
(* The description texts are fixed per entry and are left out.             *)

RiskFactor(category, factor, impact) ==
    [category |-> category, factor |-> factor, impact |-> impact]

\* contact = "None" when the optional contact is not given
Recommendation(type, title, urgency, contact) ==
    [type |-> type, title |-> title, urgency |-> urgency, contact |-> contact]

\* risk_score: int is validated by pydantic 2 (config.py imports
\* pydantic_settings): a float with a fractional part is rejected with a
\* ValidationError, a whole float is accepted.  The argument is in half points.
IntFieldAccepts(half_points) == half_points % 2 = 0

PredictionResponse(risk_level, risk_score_half, dropout_probability, predicted_class, risk_factors, recommendations, prediction_confidence) ==
    IF IntFieldAccepts(risk_score_half)
    THEN [raised |-> FALSE,
          value |-> [risk_level |-> risk_level,
                     risk_score |-> risk_score_half \div 2,
                     dropout_probability |-> dropout_probability,
                     predicted_class |-> predicted_class,
                     risk_factors |-> risk_factors,
                     recommendations |-> recommendations,
                     prediction_confidence |-> prediction_confidence]]
    ELSE [raised |-> TRUE]

\* one rule: the annotation is emitted iff its condition holds
Emit(condition, entry) == IF condition THEN <<entry>> ELSE <<>>

LowClassAttendance == RiskFactor("Academic", "Low Class Attendance", "high")

AcademicOverwhelm == RiskFactor("Mental Health", "Academic Overwhelm", "high")

FinancialStress == RiskFactor("Financial", "Financial Stress", "high")

WithdrawalConsideration ==
    RiskFactor("Behavioral", "Withdrawal Consideration", "high")

WeakSupportNetwork == RiskFactor("Social", "Weak Support Network", "medium")

FullTimeEmployment == RiskFactor("Personal", "Full-time Employment", "medium")

MentalHealthSupport ==
    Recommendation("counseling", "Mental Health Support", "immediate",
                   "counseling@rvce.edu.in")

FinancialAidOffice ==
    Recommendation("financial", "Financial Aid Office", "soon",
                   "financialaid@rvce.edu.in")

AcademicTutoring ==
    Recommendation("academic", "Academic Tutoring", "soon",
                   "tutoring@rvce.edu.in")

ScheduleAdvisorMeeting ==
    Recommendation("academic", "Schedule Advisor Meeting", "soon",
                   "advising@rvce.edu.in")

TimeManagementSupport ==
    Recommendation("peer", "Time Management Support", "soon", "None")

ExploreSupportServices ==
    Recommendation("support", "Explore Campus Support Services", "soon",
                   "studentcenter@rvce.edu.in")

StayConnected == Recommendation("peer", "Stay Connected", "when-needed", "None")

----------------------------------------------------------------------------
(* HeuristicScorer: calculate_fallback_risk.  risk_score in half points.   *)

attendance_scores ==
    ("always" :> 0) @@ ("often" :> 5) @@ ("sometimes" :> 15) @@
    ("rarely" :> 25) @@ ("never" :> 35)

overwhelm_scores ==
    ("never" :> 0) @@ ("rarely" :> 5) @@ ("sometimes" :> 10) @@
    ("often" :> 20) @@ ("always" :> 30)

financial_scores ==
    ("none" :> 0) @@ ("low" :> 5) @@ ("moderate" :> 10) @@ ("high" :> 20) @@
    ("very-high" :> 25)

advisor_scores ==
    ("never" :> 10) @@ ("once-semester" :> 5) @@ ("2-3-semester" :> 2) @@
    ("monthly" :> 0)

\* variant: part-time employment adds nothing
FallbackRawScore_NoPartTime(data) ==
    2 * Get(attendance_scores, data.attendance, 0)
    + 2 * Get(overwhelm_scores, data.overwhelm_frequency, 0)
    + 2 * Get(financial_scores, data.financial_stress, 0)
    + (IF data.withdrawal_considered THEN 2 * 15 ELSE 0)
    + 2 * (Max(0, 10 - data.performance_satisfaction) * 2)
    + 2 * Get(advisor_scores, data.advisor_interaction, 0)
    + 2 * Max(0, 10 - data.support_network_strength)
    + (IF data.extracurricular_hours < 1 \/ data.extracurricular_hours > 15
       THEN 2 * 5 ELSE 0)
    + Max(0, 10 - data.career_alignment) * 3
    + (IF data.employment_status = "full-time" THEN 2 * 10 ELSE 0)

\* the sum accumulated in risk_score before it is normalized, in half points
FallbackRawScore(data) ==
    2 * Get(attendance_scores, data.attendance, 0)
    + 2 * Get(overwhelm_scores, data.overwhelm_frequency, 0)
    + 2 * Get(financial_scores, data.financial_stress, 0)
    + (IF data.withdrawal_considered THEN 2 * 15 ELSE 0)
    + 2 * (Max(0, 10 - data.performance_satisfaction) * 2)
    + 2 * Get(advisor_scores, data.advisor_interaction, 0)
    + 2 * Max(0, 10 - data.support_network_strength)
    + (IF data.extracurricular_hours < 1 \/ data.extracurricular_hours > 15
       THEN 2 * 5 ELSE 0)
    + Max(0, 10 - data.career_alignment) * 3
    + (IF data.employment_status = "full-time" THEN 2 * 10
       ELSE IF data.employment_status = "part-time" THEN 2 * 5 ELSE 0)

\* variant: no upper clamp
Normalize_NoCeiling(risk_score) == Max(0, risk_score)

\* risk_score = min(100, max(0, risk_score))
Normalize(risk_score) == Min(2 * 100, Max(0, risk_score))

\* variant: a score of exactly 60 is not high
FallbackRiskLevel_StrictHigh(risk_score) ==
    IF risk_score > 2 * 60 THEN "high"
    ELSE IF risk_score >= 2 * 35 THEN "medium"
    ELSE "low"

FallbackRiskLevel(risk_score) ==
    IF risk_score >= 2 * 60 THEN "high"
    ELSE IF risk_score >= 2 * 35 THEN "medium"
    ELSE "low"

\* variant: the heuristic path also reports a weak support network
FallbackRiskFactors_WithSocial(data) ==
    Emit(data.attendance \in {"rarely", "never"}, LowClassAttendance)
    \o Emit(data.overwhelm_frequency \in {"often", "always"}, AcademicOverwhelm)
    \o Emit(data.financial_stress \in {"high", "very-high"}, FinancialStress)
    \o Emit(data.withdrawal_considered, WithdrawalConsideration)
    \o Emit(data.support_network_strength <= 3, WeakSupportNetwork)

FallbackRiskFactors(data) ==
    Emit(data.attendance \in {"rarely", "never"}, LowClassAttendance)
    \o Emit(data.overwhelm_frequency \in {"often", "always"}, AcademicOverwhelm)
    \o Emit(data.financial_stress \in {"high", "very-high"}, FinancialStress)
    \o Emit(data.withdrawal_considered, WithdrawalConsideration)

\* variant: Stay Connected is appended unconditionally
WithStayConnected_Always(recommendations) ==
    Append(recommendations, StayConnected)

\* if not recommendations: append Stay Connected
WithStayConnected(recommendations) ==
    IF recommendations = <<>> THEN <<StayConnected>> ELSE recommendations

FallbackRecommendations(data, risk_level) ==
    WithStayConnected(
        Emit(risk_level = "high", MentalHealthSupport)
        \o Emit(data.financial_stress \in {"high", "very-high"},
                FinancialAidOffice)
        \o Emit(data.performance_satisfaction <= 4, AcademicTutoring)
        \o Emit(Len(data.services_used) = 0, ExploreSupportServices))

\* dropout_probability = risk_score / 100
FallbackProbability(risk_score) == (risk_score * PScale) \div (2 * 100)

\* risk_score after line "Normalize to 0-100"
FallbackScore(data) == Normalize(FallbackRawScore(data))

calculate_fallback_risk(data) ==
    LET risk_score == FallbackScore(data)
        risk_level == FallbackRiskLevel(risk_score)
    IN  PredictionResponse(risk_level, risk_score,
                           FallbackProbability(risk_score), "None",
                           FallbackRiskFactors(data),
                           FallbackRecommendations(data, risk_level),
                           (75 * PScale) \div 100)

----------------------------------------------------------------------------
(* RiskTierer and the richer rule set of predict_simplified *)

\* variant: int() without round()
RoundedScore_Truncated(dropout_probability) ==
    {(dropout_probability * 100) \div PScale}

\* int(round(dropout_probability * 100)).  round() takes a tie to the even
\* neighbour, but the product is a binary floating-point number: for a
\* decimal probability ending in 5 it falls on either side of the tie
\* (0.575 * 100 = 57.49999999999999, 0.545 * 100 = 54.50000000000001), so
\* at a tie both neighbours are possible scores.
RoundedScore(dropout_probability) ==
    LET scaled == dropout_probability * 100
        below == scaled \div PScale
        rest == scaled % PScale
    IN  IF 2 * rest < PScale THEN {below}
        ELSE IF 2 * rest > PScale THEN {below + 1}
        ELSE {below, below + 1}

\* variant: the 0.60 boundary itself is not high
ModelRiskLevel_StrictHigh(dropout_probability) ==
    IF 10 * dropout_probability > 6 * PScale THEN "high"
    ELSE IF 100 * dropout_probability >= 35 * PScale THEN "medium"
    ELSE "low"

ModelRiskLevel(dropout_probability) ==
    IF 10 * dropout_probability >= 6 * PScale THEN "high"
    ELSE IF 100 * dropout_probability >= 35 * PScale THEN "medium"
    ELSE "low"

RawRiskLevel(dropout_probability) ==
    IF 10 * dropout_probability >= 6 * PScale THEN "high"
    ELSE IF 100 * dropout_probability >= 35 * PScale THEN "medium"
    ELSE "low"

ModelRiskFactors(data) ==
    Emit(data.attendance \in {"rarely", "never"}, LowClassAttendance)
    \o Emit(data.overwhelm_frequency \in {"often", "always"}, AcademicOverwhelm)
    \o Emit(data.financial_stress \in {"high", "very-high"}, FinancialStress)
    \o Emit(data.withdrawal_considered, WithdrawalConsideration)
    \o Emit(data.support_network_strength <= 3, WeakSupportNetwork)
    \o Emit(data.employment_status = "full-time", FullTimeEmployment)

\* variant: the financial-aid rule is evaluated before the counseling rule
ModelRecommendations_AidFirst(data, risk_level) ==
    Emit(data.financial_stress \in {"high", "very-high"}, FinancialAidOffice)
    \o Emit(risk_level = "high", MentalHealthSupport)
    \o Emit(data.performance_satisfaction <= 4, AcademicTutoring)
    \o Emit(data.advisor_interaction \in {"never", "once-semester"},
            ScheduleAdvisorMeeting)
    \o Emit(data.employment_status = "full-time", TimeManagementSupport)

ModelRecommendations(data, risk_level) ==
    Emit(risk_level = "high", MentalHealthSupport)
    \o Emit(data.financial_stress \in {"high", "very-high"}, FinancialAidOffice)
    \o Emit(data.performance_satisfaction <= 4, AcademicTutoring)
    \o Emit(data.advisor_interaction \in {"never", "once-semester"},
            ScheduleAdvisorMeeting)
    \o Emit(data.employment_status = "full-time", TimeManagementSupport)

withdrawal_reason_map ==
    ("Academic difficulty" :>
        [recommendation |->
            Recommendation("academic", "Academic Support Program",
                           "immediate", "academicsupport@rvce.edu.in"),
         risk_factor |->
            RiskFactor("Academic", "Academic Difficulty", "high")])
    @@ ("Financial challenges" :>
        [recommendation |->
            Recommendation("financial", "Emergency Financial Assistance",
                           "immediate", "financialaid@rvce.edu.in"),
         risk_factor |->
            RiskFactor("Financial", "Financial Crisis", "high")])
    @@ ("Mental health" :>
        [recommendation |->
            Recommendation("counseling", "Mental Health Crisis Support",
                           "immediate", "counseling@rvce.edu.in"),
         risk_factor |->
            RiskFactor("Mental Health", "Mental Health Crisis", "high")])
    @@ ("Personal/family issues" :>
        [recommendation |->
            Recommendation("support", "Personal Counseling & Family Support",
                           "soon", "counseling@rvce.edu.in"),
         risk_factor |->
            RiskFactor("Personal", "Personal/Family Crisis", "high")])
    @@ ("Lack of interest" :>
        [recommendation |->
            Recommendation("academic",
                           "Academic Advising & Program Exploration",
                           "soon", "advising@rvce.edu.in"),
         risk_factor |->
            RiskFactor("Academic", "Loss of Academic Interest", "high")])
    @@ ("Career opportunities" :>
        [recommendation |->
            Recommendation("career", "Career Planning & Education Strategy",
                           "soon", "career@rvce.edu.in"),
         risk_factor |->
            RiskFactor("Career", "Career Path Conflict", "medium")])

\* variant: the reasons are handled whatever the withdrawal flag says
ReasonsHandled_IgnoringFlag(data) == data.withdrawal_reasons # <<>>

\* if data.withdrawal_considered and data.withdrawal_reasons
ReasonsHandled(data) ==
    data.withdrawal_considered /\ data.withdrawal_reasons # <<>>

\* for reason in data.withdrawal_reasons: if reason in withdrawal_reason_map:
\* append withdrawal_reason_map[reason][kind]
RECURSIVE ReasonEntries(_, _)
ReasonEntries(withdrawal_reasons, kind) ==
    IF withdrawal_reasons = <<>> THEN <<>>
    ELSE LET reason == Head(withdrawal_reasons)
         IN  (IF reason \in DOMAIN withdrawal_reason_map
              THEN <<withdrawal_reason_map[reason][kind]>>
              ELSE <<>>)
             \o ReasonEntries(Tail(withdrawal_reasons), kind)

\* the sequences of the model-backed result: rules, then the entries of the
\* withdrawal reasons, then the services rule and the Stay Connected default
ModelAllRiskFactors(data) ==
    ModelRiskFactors(data)
    \o (IF ReasonsHandled(data)
        THEN ReasonEntries(data.withdrawal_reasons, "risk_factor")
        ELSE <<>>)

ModelAllRecommendations(data, risk_level) ==
    WithStayConnected(
        ModelRecommendations(data, risk_level)
        \o (IF ReasonsHandled(data)
            THEN ReasonEntries(data.withdrawal_reasons, "recommendation")
            ELSE <<>>)
        \o Emit(Len(data.services_used) = 0, ExploreSupportServices))

----------------------------------------------------------------------------
(* Record store: save_prediction.  A table is the sequence of its rows and *)
(* an autoincrement id is the row's position.                              *)

EmptyStore ==
    [predictions |-> <<>>, assessment_inputs |-> <<>>,
     risk_factors |-> <<>>, recommendations |-> <<>>]

\* variant: the child rows take the id the session held before the flush
save_prediction_StaleParent(store, prediction, assessment_input, endpoint) ==
    LET new_id == Len(store.predictions) + 1
        prediction_id == Len(store.predictions)
        new_prediction ==
            [id |-> new_id,
             risk_level |-> prediction.risk_level,
             risk_score |-> prediction.risk_score,
             dropout_probability |-> prediction.dropout_probability,
             predicted_class |-> prediction.predicted_class,
             prediction_confidence |-> prediction.prediction_confidence,
             endpoint |-> endpoint,
             created_at |-> now]
        new_assessment ==
            [i \in 1..Len(assessment_input) |->
                [id |-> Len(store.assessment_inputs) + i,
                 prediction_id |-> prediction_id,
                 input |-> assessment_input[i]]]
        new_risk_factors ==
            [i \in 1..Len(prediction.risk_factors) |->
                [id |-> Len(store.risk_factors) + i,
                 prediction_id |-> prediction_id,
                 category |-> prediction.risk_factors[i].category,
                 factor |-> prediction.risk_factors[i].factor,
                 impact |-> prediction.risk_factors[i].impact]]
        new_recommendations ==
            [i \in 1..Len(prediction.recommendations) |->
                [id |-> Len(store.recommendations) + i,
                 prediction_id |-> prediction_id,
                 rec_type |-> prediction.recommendations[i].type,
                 title |-> prediction.recommendations[i].title,
                 urgency |-> prediction.recommendations[i].urgency,
                 contact |-> prediction.recommendations[i].contact]]
    IN  [predictions |-> Append(store.predictions, new_prediction),
         assessment_inputs |-> store.assessment_inputs \o new_assessment,
         risk_factors |-> store.risk_factors \o new_risk_factors,
         recommendations |-> store.recommendations \o new_recommendations]

\* assessment_input is <<>> for None and <<data>> otherwise.  The rows are
\* added to the session and committed together.
save_prediction(store, prediction, assessment_input, endpoint) ==
    LET prediction_id == Len(store.predictions) + 1
        new_prediction ==
            [id |-> prediction_id,
             risk_level |-> prediction.risk_level,
             risk_score |-> prediction.risk_score,
             dropout_probability |-> prediction.dropout_probability,
             predicted_class |-> prediction.predicted_class,
             prediction_confidence |-> prediction.prediction_confidence,
             endpoint |-> endpoint,
             created_at |-> now]
        new_assessment ==
            [i \in 1..Len(assessment_input) |->
                [id |-> Len(store.assessment_inputs) + i,
                 prediction_id |-> prediction_id,
                 input |-> assessment_input[i]]]
        new_risk_factors ==
            [i \in 1..Len(prediction.risk_factors) |->
                [id |-> Len(store.risk_factors) + i,
                 prediction_id |-> prediction_id,
                 category |-> prediction.risk_factors[i].category,
                 factor |-> prediction.risk_factors[i].factor,
                 impact |-> prediction.risk_factors[i].impact]]
        new_recommendations ==
            [i \in 1..Len(prediction.recommendations) |->
                [id |-> Len(store.recommendations) + i,
                 prediction_id |-> prediction_id,
                 rec_type |-> prediction.recommendations[i].type,
                 title |-> prediction.recommendations[i].title,
                 urgency |-> prediction.recommendations[i].urgency,
                 contact |-> prediction.recommendations[i].contact]]
    IN  [predictions |-> Append(store.predictions, new_prediction),
         assessment_inputs |-> store.assessment_inputs \o new_assessment,
         risk_factors |-> store.risk_factors \o new_risk_factors,
         recommendations |-> store.recommendations \o new_recommendations]

----------------------------------------------------------------------------
(* DashboardAggregator: the read-only queries over the record store.       *)
(* Percentages rounded to 2 decimals are carried in hundredths, values     *)
(* rounded to 1 decimal in tenths.  A query whose row order SQL leaves     *)
(* open (equal sort keys) is the set of the answers it may return.         *)

\* round(num / den) to an integer; a tie goes to the even neighbour, as
\* Python's round does on a value that is exactly representable (every tie
\* of a count or a sum over fewer than 16 rows is)
RoundHalfEven(num, den) ==
    LET q == num \div den
        r == num % den
    IN  IF 2 * r < den THEN q
        ELSE IF 2 * r > den THEN q + 1
        ELSE IF q % 2 = 0 THEN q ELSE q + 1

RECURSIVE SumSeq(_)
SumSeq(seq) == IF seq = <<>> THEN 0 ELSE Head(seq) + SumSeq(Tail(seq))

\* every ordering of the elements of a finite set
RECURSIVE Orderings(_)
Orderings(S) ==
    IF S = {} THEN {<<>>}
    ELSE UNION {{<<x>> \o rest : rest \in Orderings(S \ {x})} : x \in S}

\* the first `limit` rows (SQL LIMIT, limit >= 0)
Limit(rows, limit) == SubSeq(rows, 1, Min(limit, Len(rows)))

IsLeapYear(year) ==
    year % 4 = 0 /\ (year % 100 # 0 \/ year % 400 = 0)

DaysInYear(year) == IF IsLeapYear(year) THEN 366 ELSE 365

\* calendar year and zero-based day of the year of a day count that starts
\* at 1 Jan of `year`
RECURSIVE DateOf(_, _)
DateOf(day, year) ==
    IF day < DaysInYear(year) THEN [year |-> year, yday |-> day]
    ELSE DateOf(day - DaysInYear(year), year + 1)

\* strftime('%Y-%W', created_at): the year and the week of the year, weeks
\* starting on Monday, the days before the first Monday being week 0
WeekNum(created_at) ==
    LET date == DateOf(created_at, 2024)
        weekday == created_at % 7
    IN  [year |-> date.year, week |-> (date.yday + 7 - weekday) \div 7]

\* string order of two '%Y-%W' values
WeekNumBefore(a, b) ==
    a.year < b.year \/ (a.year = b.year /\ a.week < b.week)

\* f"W{row.week_num.split('-')[1]}": the week part alone
WeekKey(week_num) == week_num.week

\* variant: percentages are truncated to 2 decimals
Percentage2_Truncated(count, total) ==
    IF total > 0 THEN (count * 100 * 100) \div total ELSE 0

\* round((count / total * 100) if total > 0 else 0, 2), in hundredths
Percentage2(count, total) ==
    IF total > 0 THEN RoundHalfEven(count * 100 * 100, total) ELSE 0

get_dashboard_stats(store) ==
    LET rows == store.predictions
        total == Len(rows)
        high == Len(SelectSeq(rows, LAMBDA p : p.risk_level = "high"))
        medium == Len(SelectSeq(rows, LAMBDA p : p.risk_level = "medium"))
        low == Len(SelectSeq(rows, LAMBDA p : p.risk_level = "low"))
        sum_score == SumSeq([i \in DOMAIN rows |-> rows[i].risk_score])
    IN  [total_assessments |-> total,
         high_risk_count |-> high,
         medium_risk_count |-> medium,
         low_risk_count |-> low,
         high_risk_percentage |-> Percentage2(high, total),
         medium_risk_percentage |-> Percentage2(medium, total),
         low_risk_percentage |-> Percentage2(low, total),
         average_risk_score |->
             IF total > 0 THEN RoundHalfEven(sum_score * 10, total) ELSE 0]

\* what the attribute `count` of a result row yields.  A result row is a
\* tuple-like sequence; with the Row class of SQLAlchemy 1.4 and 2.0, which
\* inherits the sequence method count, row.count is that bound method and
\* the column labelled 'count' is not reached; with a row class that has no
\* such method it is the column.  Both are explored.
CountReads == {"column", "method"}

\* a value that is the number n
Number(n) == [is_number |-> TRUE, n |-> n]

\* a value that is a bound method
BoundMethod == [is_number |-> FALSE, n |-> 0]

\* row.count
CountAttribute(row, reads) ==
    IF reads = "column" THEN Number(row.count) ELSE BoundMethod

\* the loop body of get_risk_trends: one grouped row into weekly_data, a
\* dict kept as the sequence of its values in insertion order
AddTrendRow(weekly_data, row, reads) ==
    LET week_key == WeekKey(row.week_num)
        present == {i \in DOMAIN weekly_data :
                        weekly_data[i].week = week_key}
        with_key ==
            IF present = {}
            THEN Append(weekly_data,
                        [week |-> week_key, high_risk |-> Number(0),
                         medium_risk |-> Number(0), low_risk |-> Number(0)])
            ELSE weekly_data
        at == CHOOSE i \in DOMAIN with_key : with_key[i].week = week_key
        count == CountAttribute(row, reads)
    IN  IF row.risk_level = "high"
        THEN [with_key EXCEPT ![at].high_risk = count]
        ELSE IF row.risk_level = "medium"
        THEN [with_key EXCEPT ![at].medium_risk = count]
        ELSE [with_key EXCEPT ![at].low_risk = count]

RECURSIVE AddTrendRows(_, _, _)
AddTrendRows(weekly_data, rows, reads) ==
    IF rows = <<>> THEN weekly_data
    ELSE AddTrendRows(AddTrendRow(weekly_data, Head(rows), reads),
                      Tail(rows), reads)

\* the grouped rows of get_risk_trends in ORDER BY week_num; the order of
\* the rows of one week does not change what the loop builds
RECURSIVE TrendRows(_)
TrendRows(groups) ==
    IF groups = {} THEN <<>>
    ELSE LET first ==
               CHOOSE g \in groups :
                  \A h \in groups :
                     \/ WeekNumBefore(g.week_num, h.week_num)
                     \/ /\ g.week_num = h.week_num
                        /\ \/ g.risk_level = h.risk_level
                           \/ g.risk_level = "high"
                           \/ (g.risk_level = "medium"
                               /\ h.risk_level # "high")
         IN  <<first>> \o TrendRows(groups \ {first})

get_risk_trends(store, weeks, reads) ==
    LET start_date == now - 7 * weeks
        rows == store.predictions
        in_window == {i \in DOMAIN rows : rows[i].created_at >= start_date}
        keys == {<<WeekNum(rows[i].created_at), rows[i].risk_level>> :
                    i \in in_window}
        groups ==
            {[week_num |-> k[1], risk_level |-> k[2],
              count |-> Cardinality(
                  {i \in in_window :
                      /\ WeekNum(rows[i].created_at) = k[1]
                      /\ rows[i].risk_level = k[2]})] : k \in keys}
    IN  AddTrendRows(<<>>, TrendRows(groups), reads)

\* created_at of the prediction a child row belongs to (the join on
\* prediction_id)
ParentCreatedAt(store, child) == store.predictions[child.prediction_id].created_at

\* variant: a row exactly 7 days old counts in the preceding window
calculate_trend_StrictTrailing(store, category) ==
    LET week_ago == now - 7
        two_weeks_ago == now - 14
        current_count ==
            Len(SelectSeq(store.risk_factors,
                LAMBDA rf : /\ rf.category = category
                            /\ ParentCreatedAt(store, rf) > week_ago))
        prev_count ==
            Len(SelectSeq(store.risk_factors,
                LAMBDA rf : /\ rf.category = category
                            /\ ParentCreatedAt(store, rf) >= two_weeks_ago
                            /\ ParentCreatedAt(store, rf) <= week_ago))
    IN  IF current_count > prev_count THEN "up"
        ELSE IF current_count < prev_count THEN "down"
        ELSE "stable"

calculate_trend(store, category) ==
    LET week_ago == now - 7
        two_weeks_ago == now - 14
        current_count ==
            Len(SelectSeq(store.risk_factors,
                LAMBDA rf : /\ rf.category = category
                            /\ ParentCreatedAt(store, rf) >= week_ago))
        prev_count ==
            Len(SelectSeq(store.risk_factors,
                LAMBDA rf : /\ rf.category = category
                            /\ ParentCreatedAt(store, rf) >= two_weeks_ago
                            /\ ParentCreatedAt(store, rf) < week_ago))
    IN  IF current_count > prev_count THEN "up"
        ELSE IF current_count < prev_count THEN "down"
        ELSE "stable"

\* the rows of "GROUP BY category ORDER BY count DESC": every order of the
\* categories in which the counts do not increase
FactorGroups(store) ==
    LET categories ==
            {store.risk_factors[i].category : i \in DOMAIN store.risk_factors}
        groups ==
            {[category |-> c,
              count |-> Len(SelectSeq(store.risk_factors,
                                   LAMBDA rf : rf.category = c))] :
                c \in categories}
    IN  {rows \in Orderings(groups) :
            \A i \in 1..(Len(rows) - 1) : rows[i].count >= rows[i + 1].count}

\* a call that returned `value`
Returned(value) == [raised |-> FALSE, value |-> value]

\* a call that raised
Raised == [raised |-> TRUE, value |-> <<>>]

\* the list built from the limited rows; percentage is
\* round(count / total_factors * 100, 1) in tenths
TopFactorEntries(store, rows) ==
    LET total_factors == SumSeq([i \in DOMAIN rows |-> rows[i].count])
    IN  [i \in DOMAIN rows |->
            [name |-> rows[i].category,
             percentage |->
                 IF total_factors > 0
                 THEN RoundHalfEven(rows[i].count * 100 * 10, total_factors)
                 ELSE 0,
             trend |-> calculate_trend(store, rows[i].category)]]

\* the outcomes of get_top_risk_factors.  sum(r.count for r in rows) adds
\* numbers, or raises TypeError when r.count is a bound method and there is
\* a row to add
get_top_risk_factors(store, limit, reads) ==
    {IF reads = "method" /\ Limit(rows, limit) # <<>>
     THEN Raised
     ELSE Returned(TopFactorEntries(store, Limit(rows, limit))) :
        rows \in FactorGroups(store)}

\* academic_year or 'N/A': the column is NULL for a prediction without an
\* assessment row, and an empty string is false as well
AcademicYearLabel(academic_year) ==
    IF academic_year = <<>> \/ academic_year = <<"">>
    THEN "N/A"
    ELSE academic_year[1]

\* the rows of Prediction OUTER JOIN AssessmentInput: one per matching
\* assessment row, one with no academic_year for a prediction without any
RecentJoin(store) ==
    UNION {
        LET p == store.predictions[i]
            matching == {j \in DOMAIN store.assessment_inputs :
                            store.assessment_inputs[j].prediction_id = p.id}
        IN  IF matching = {}
            THEN {[id |-> p.id, created_at |-> p.created_at,
                   risk_level |-> p.risk_level, academic_year |-> <<>>]}
            ELSE {[id |-> p.id, created_at |-> p.created_at,
                   risk_level |-> p.risk_level,
                   academic_year |->
                       <<store.assessment_inputs[j].input.academic_year>>] :
                    j \in matching} :
        i \in DOMAIN store.predictions}

\* variant: oldest first
RecentRows_Ascending(store) ==
    {rows \in Orderings(RecentJoin(store)) :
        \A i \in 1..(Len(rows) - 1) :
            rows[i].created_at <= rows[i + 1].created_at}

\* ORDER BY created_at DESC: every order in which created_at does not
\* increase
RecentRows(store) ==
    {rows \in Orderings(RecentJoin(store)) :
        \A i \in 1..(Len(rows) - 1) :
            rows[i].created_at >= rows[i + 1].created_at}

\* the answers get_recent_assessments may return; `date` stands for the
\* date and time strings formatted from created_at, `type` for the label
\* inside f"Year {label} Review"
get_recent_assessments(store, limit) ==
    {[i \in DOMAIN Limit(rows, limit) |->
        [id |-> rows[i].id,
         name |-> "Student Assessment",
         type |-> AcademicYearLabel(rows[i].academic_year),
         date |-> rows[i].created_at,
         risk |-> rows[i].risk_level]] :
        rows \in RecentRows(store)}

\* get_risk_distribution: a dict with 0 for each tier, in which the entry
\* of every tier that has a grouped row is overwritten with row.count
get_risk_distribution(store, reads) ==
    LET rows == store.predictions
        Of(tier) == Len(SelectSeq(rows, LAMBDA p : p.risk_level = tier))
        Entry(tier) ==
            IF Of(tier) > 0
            THEN CountAttribute([risk_level |-> tier, count |-> Of(tier)],
                                reads)
            ELSE Number(0)
    IN  [high |-> Entry("high"), medium |-> Entry("medium"),
         low |-> Entry("low")]

----------------------------------------------------------------------------
(* Admin endpoints.  Each handler awaits its query and builds its response *)
(* model inside try/except Exception, and returns a zero or empty response *)
(* from the except branch.  `outcome` is what the query did.               *)

\* a response returned by a handler
Ok(body) == [status |-> 200, body |-> body]

\* the response of an exception that leaves a handler
ServerError == [status |-> 500, body |-> <<>>]

ZeroStats ==
    [total_assessments |-> 0, high_risk_count |-> 0,
     medium_risk_count |-> 0, low_risk_count |-> 0,
     high_risk_percentage |-> 0, medium_risk_percentage |-> 0,
     low_risk_percentage |-> 0, average_risk_score |-> 0]

ZeroDistribution == [high |-> 0, medium |-> 0, low |-> 0]

dashboard_stats(outcome) ==
    IF outcome.raised THEN Ok(ZeroStats) ELSE Ok(outcome.value)

\* TrendDataPoint(**item) raises a validation error for an item whose
\* counts are not integers
dashboard_trends(outcome) ==
    IF outcome.raised THEN Ok(<<>>)
    ELSE LET trends_data == outcome.value
             valid ==
                 \A i \in DOMAIN trends_data :
                     /\ trends_data[i].high_risk.is_number
                     /\ trends_data[i].medium_risk.is_number
                     /\ trends_data[i].low_risk.is_number
         IN  IF valid
             THEN Ok([i \in DOMAIN trends_data |->
                        [week |-> trends_data[i].week,
                         high_risk |-> trends_data[i].high_risk.n,
                         medium_risk |-> trends_data[i].medium_risk.n,
                         low_risk |-> trends_data[i].low_risk.n]])
             ELSE Ok(<<>>)

top_risk_factors(outcome) ==
    IF outcome.raised THEN Ok(<<>>) ELSE Ok(outcome.value)

recent_assessments(outcome) ==
    IF outcome.raised THEN Ok(<<>>) ELSE Ok(outcome.value)

\* variant: a failure of the query leaves the handler
risk_distribution_Propagating(outcome) ==
    IF outcome.raised THEN ServerError
    ELSE LET distribution == outcome.value
         IN  IF /\ distribution.high.is_number
                /\ distribution.medium.is_number
                /\ distribution.low.is_number
             THEN Ok([high |-> distribution.high.n,
                      medium |-> distribution.medium.n,
                      low |-> distribution.low.n])
             ELSE Ok(ZeroDistribution)

\* RiskDistributionResponse(**distribution) raises a validation error for
\* a count that is not an integer
risk_distribution(outcome) ==
    IF outcome.raised THEN Ok(ZeroDistribution)
    ELSE LET distribution == outcome.value
         IN  IF /\ distribution.high.is_number
                /\ distribution.medium.is_number
                /\ distribution.low.is_number
             THEN Ok([high |-> distribution.high.n,
                      medium |-> distribution.medium.n,
                      low |-> distribution.low.n])
             ELSE Ok(ZeroDistribution)

\* the five aggregate endpoints
Endpoints == {"stats", "trends", "top-factors", "recent", "distribution"}

\* what the handler of `endpoint` answers when its query raises
ReplyOnFailure(endpoint) ==
    CASE endpoint = "stats" -> dashboard_stats(Raised)
      [] endpoint = "trends" -> dashboard_trends(Raised)
      [] endpoint = "top-factors" -> top_risk_factors(Raised)
      [] endpoint = "recent" -> recent_assessments(Raised)
      [] endpoint = "distribution" -> risk_distribution(Raised)

----------------------------------------------------------------------------
(* PredictionOrchestrator: the two request handlers *)

\* outcomes of ml_model.predict (the capability itself is external)
Unavailable == [kind |-> "none"]

\* no dashboard query has been answered
NoAnswer == [query |-> [name |-> "none"], raised |-> FALSE, value |-> <<>>]

Raises == [kind |-> "raise"]

Prediction(dropout_probability, predicted_class, model_confidence) ==
    [kind |-> "pred", dropout_probability |-> dropout_probability,
     predicted_class |-> predicted_class,
     model_confidence |-> model_confidence]

\* variant: a save that raised is attempted once more
Attempts_Retrying(call, save_fails) ==
    IF save_fails THEN <<call, call>> ELSE <<call>>

\* the save_prediction calls a handler makes for its result: the one call
\* inside try/except, which no loop surrounds
Attempts(call, save_fails) == <<call>>

\* variant: a failed save is not swallowed
SaveAndReturn_Propagating(result, assessment_input, endpoint, save_fails) ==
    /\ save_calls' = save_calls \o
                         Attempts([prediction |-> result,
                                   assessment_input |-> assessment_input,
                                   endpoint |-> endpoint], save_fails)
    /\ save_raised' = save_fails
    /\ db' = IF save_fails THEN db
             ELSE save_prediction(db, result, assessment_input, endpoint)
    /\ response' = IF save_fails
                   THEN [status |-> 500, detail |-> "Prediction failed"]
                   ELSE [status |-> 200, body |-> result]

\* try: await save_prediction(...)  except Exception: print(...)
\* return result
\* A save that raises has rolled back: the committed tables are unchanged.
SaveAndReturn(result, assessment_input, endpoint, save_fails) ==
    /\ save_calls' = save_calls \o
                         Attempts([prediction |-> result,
                                   assessment_input |-> assessment_input,
                                   endpoint |-> endpoint], save_fails)
    /\ save_raised' = save_fails
    /\ db' = IF save_fails THEN db
             ELSE save_prediction(db, result, assessment_input, endpoint)
    /\ response' = [status |-> 200, body |-> result]

\* variant: every rejection is reported as "service unavailable"
Reject_AsUnavailable(status_code, detail) ==
    /\ response' = [status |-> 503, detail |-> detail]
    /\ UNCHANGED <<save_calls, save_raised, db>>

\* raise HTTPException(status_code, detail)
Reject(status_code, detail) ==
    /\ response' = [status |-> status_code, detail |-> detail]
    /\ UNCHANGED <<save_calls, save_raised, db>>

\* the model-backed branch of predict_simplified
ModelBackedResult(data, pred, risk_score) ==
    LET dropout_probability == pred.dropout_probability
        risk_level == ModelRiskLevel(dropout_probability)
    IN  PredictionResponse(risk_level, 2 * risk_score, dropout_probability,
                           pred.predicted_class,
                           ModelAllRiskFactors(data),
                           ModelAllRecommendations(data, risk_level),
                           pred.model_confidence)

\* whether predict_simplified takes the model-backed branch
UsesModel(loaded, pred) == loaded /\ pred.kind = "pred"

PredictSimplified ==
    /\ pc = "pending"
    /\ request.endpoint = "simplified"
    /\ \E save_fails \in BOOLEAN :
        LET data == request.data
        IN  /\ ml_features' = map_form_to_ml_features(data)
            /\ IF is_loaded /\ model_out.kind = "raise"
               THEN /\ Reject(500, "Prediction failed")
                    /\ fallback_score' = -1
                    /\ fallback_raw_score' = -1
               ELSE IF UsesModel(is_loaded, model_out)
               THEN /\ \E risk_score \in
                            RoundedScore(model_out.dropout_probability) :
                         LET built ==
                               ModelBackedResult(data, model_out, risk_score)
                         IN  IF built.raised
                             THEN Reject(500, "Prediction failed")
                             ELSE SaveAndReturn(built.value, <<data>>,
                                                "simplified", save_fails)
                    /\ fallback_score' = -1
                    /\ fallback_raw_score' = -1
               ELSE /\ LET fallback == calculate_fallback_risk(data)
                       IN  IF fallback.raised
                           THEN Reject(500, "Prediction failed")
                           ELSE SaveAndReturn(fallback.value, <<data>>,
                                              "simplified", save_fails)
                    /\ fallback_score' = FallbackScore(data)
                    /\ fallback_raw_score' = FallbackRawScore(data)
    /\ pc' = "done"
    /\ UNCHANGED <<request, is_loaded, model_out, now, ticks, answer, txn>>

\* variant: only the first absent name is reported
MissingKeys_FirstOnly(features_dict) ==
    LET missing ==
          SelectSeq(FEATURE_ORDER, LAMBDA f : f \notin DOMAIN features_dict)
    IN  SubSeq(missing, 1, Min(1, Len(missing)))

\* missing = [f for f in FEATURE_ORDER if f not in features_dict]
MissingKeys(features_dict) ==
    SelectSeq(FEATURE_ORDER, LAMBDA f : f \notin DOMAIN features_dict)

RawResult(pred, risk_score) ==
    LET dropout_probability == pred.dropout_probability
        risk_level == RawRiskLevel(dropout_probability)
    IN  PredictionResponse(risk_level, 2 * risk_score, dropout_probability,
                           pred.predicted_class, <<>>, <<>>,
                           pred.model_confidence)

PredictRaw ==
    /\ pc = "pending"
    /\ request.endpoint = "raw"
    /\ \E save_fails \in BOOLEAN :
        LET features_dict == request.features
            missing == MissingKeys(features_dict)
        IN  IF ~is_loaded
            THEN /\ Reject(503, "ML model not loaded")
                 /\ ml_features' = <<>>
            ELSE IF missing # <<>>
            THEN /\ Reject(400, missing)
                 /\ ml_features' = <<>>
            ELSE /\ ml_features' =
                        [i \in 1..Len(FEATURE_ORDER) |->
                            features_dict[FEATURE_ORDER[i]]]
                 /\ IF model_out.kind = "raise"
                    THEN Reject(500, "Prediction failed")
                    ELSE IF model_out.kind = "none"
                    THEN Reject(500, "Model prediction failed")
                    ELSE \E risk_score \in
                              RoundedScore(model_out.dropout_probability) :
                           LET built == RawResult(model_out, risk_score)
                           IN  IF built.raised
                               THEN Reject(500, "Prediction failed")
                               ELSE SaveAndReturn(built.value, <<>>, "raw",
                                                  save_fails)
    /\ pc' = "done"
    /\ UNCHANGED <<request, is_loaded, model_out, fallback_score,
                   fallback_raw_score, now, ticks, answer, txn>>

----------------------------------------------------------------------------
(* Explored requests and collaborator behaviours *)

IntRange == (0 - OutOfRange)..(10 + OutOfRange)

ReasonLabels == DOMAIN withdrawal_reason_map

\* every answer at its most favourable value
Benign ==
    [academic_year |-> "1st", attendance |-> "always",
     overwhelm_frequency |-> "never", study_hours |-> "5-8",
     performance_satisfaction |-> 10, advisor_interaction |-> "monthly",
     support_network_strength |-> 10, extracurricular_hours |-> 5,
     employment_status |-> "not-employed", financial_stress |-> "none",
     career_alignment |-> 10, services_used |-> <<"Tutoring">>,
     withdrawal_considered |-> FALSE, withdrawal_reasons |-> <<>>]

\* every adverse contribution fires
Worst ==
    [academic_year |-> "4th", attendance |-> "never",
     overwhelm_frequency |-> "always", study_hours |-> "1-3",
     performance_satisfaction |-> 0, advisor_interaction |-> "never",
     support_network_strength |-> 0, extracurricular_hours |-> 0,
     employment_status |-> "full-time", financial_stress |-> "very-high",
     career_alignment |-> 0, services_used |-> <<>>,
     withdrawal_considered |-> TRUE, withdrawal_reasons |-> <<>>]

\* every enumerated answer outside its vocabulary
Unlisted ==
    [academic_year |-> OOV, attendance |-> OOV,
     overwhelm_frequency |-> OOV, study_hours |-> OOV,
     performance_satisfaction |-> 5, advisor_interaction |-> OOV,
     support_network_strength |-> 5, extracurricular_hours |-> 5,
     employment_status |-> OOV, financial_stress |-> OOV,
     career_alignment |-> 5, services_used |-> <<>>,
     withdrawal_considered |-> FALSE, withdrawal_reasons |-> <<>>]

Baselines == {Benign, Worst, Unlisted}

\* all enumerated answers that enter the heuristic score, with the integer
\* answers all at 0 or all at 10
EnumSweep ==
    { [academic_year |-> "1st", attendance |-> at,
       overwhelm_frequency |-> ov, study_hours |-> "1-3",
       performance_satisfaction |-> level, advisor_interaction |-> ad,
       support_network_strength |-> level, extracurricular_hours |-> level,
       employment_status |-> em, financial_stress |-> fs,
       career_alignment |-> level, services_used |-> <<>>,
       withdrawal_considered |-> wc, withdrawal_reasons |-> <<>>] :
        at \in AttendanceVocab \cup {OOV},
        ov \in OverwhelmVocab \cup {OOV},
        ad \in AdvisorVocab \cup {OOV},
        em \in EmploymentVocab \cup {OOV},
        fs \in FinancialVocab \cup {OOV},
        wc \in BOOLEAN, level \in {0, 10} }

\* all integer answers, in and out of range, around each baseline
IntSweep ==
    { [b EXCEPT !.performance_satisfaction = ps,
                !.support_network_strength = sn,
                !.extracurricular_hours = ex,
                !.career_alignment = ca] :
        b \in Baselines, ps \in IntRange, ca \in IntRange,
        sn \in {0 - OutOfRange, 0, 3, 4, 10, 10 + OutOfRange},
        ex \in {0 - OutOfRange, 0, 1, 15, 16} }

\* the conditions of the two rule sets, each true and false
RuleSweep ==
    [academic_year : {"2nd"},
     attendance : {"always", "never"},
     overwhelm_frequency : {"never", "often"},
     study_hours : {"8+"},
     performance_satisfaction : {4, 5},
     advisor_interaction : {"never", "once-semester", "monthly"},
     support_network_strength : {3, 4},
     extracurricular_hours : {5},
     employment_status : EmploymentVocab,
     financial_stress : {"none", "high", "very-high"},
     career_alignment : {10},
     services_used : {<<>>, <<"Counseling">>},
     withdrawal_considered : BOOLEAN,
     withdrawal_reasons : {<<>>, <<"Mental health">>}]

\* every list of withdrawal reasons, listed and unlisted labels, repeats
\* included
ReasonSweep ==
    { [b EXCEPT !.withdrawal_considered = wc,
                !.withdrawal_reasons = reasons,
                !.services_used = used] :
        b \in {Benign, Worst}, wc \in BOOLEAN,
        reasons \in SeqsUpTo(ReasonLabels \cup {OOV}, MaxReasons),
        used \in {<<>>, <<"Tutoring">>} }

\* the answers the feature mapper reads
MapSweep ==
    { [Benign EXCEPT !.attendance = "never", !.study_hours = "1-3"] }
    \cup
    { [Benign EXCEPT !.attendance = at, !.performance_satisfaction = ps,
                     !.financial_stress = fs] :
        at \in AttendanceVocab \cup {OOV}, ps \in IntRange,
        fs \in FinancialVocab \cup {OOV} }
    \cup
    { [Benign EXCEPT !.academic_year = ay, !.employment_status = em,
                     !.career_alignment = ca, !.study_hours = sh] :
        ay \in AcademicYearVocab \cup {OOV},
        em \in EmploymentVocab \cup {OOV}, ca \in IntRange,
        sh \in StudyHoursVocab \cup {OOV} }

Simplified(data) == [endpoint |-> "simplified", data |-> data]

Raw(features) == [endpoint |-> "raw", features |-> features]

FeatureNames == {FEATURE_ORDER[i] : i \in 1..Len(FEATURE_ORDER)}

\* a raw feature map holding every required key
CompleteFeatures == [f \in FeatureNames |-> 1]

\* the model capability is not ready
NoModel == [is_loaded |-> FALSE, model_out |-> Unavailable]

Ready(out) == [is_loaded |-> TRUE, model_out |-> out]

PredictedClasses == {"Dropout", "Non-Dropout"}

\* one prediction on each side of the 0.60 threshold
TwoPredictions ==
    {Prediction((6 * PScale) \div 10 - 1, "Non-Dropout", (8 * PScale) \div 10),
     Prediction((6 * PScale) \div 10, "Dropout", (9 * PScale) \div 10)}

\* every probability in [0, 1] at the resolution of the representation
AllPredictions ==
    {Prediction(p, c, (9 * PScale) \div 10) :
        p \in 0..PScale, c \in PredictedClasses}

\* raw feature maps with any subset of the required keys
FeatureMaps == UNION {[keys -> {1}] : keys \in SUBSET FeatureNames}

NoModelOrNone == {NoModel, Ready(Unavailable)}

ReadyTwo == {Ready(out) : out \in TwoPredictions}

----------------------------------------------------------------------------
(* Specification: one request, handled once *)

\* the request and the collaborators' behaviour of one run
Start(req, env) ==
    /\ request = req
    /\ is_loaded = env.is_loaded
    /\ model_out = env.model_out

Init ==
    /\ \/ \E d \in EnumSweep : Start(Simplified(d), NoModel)
       \/ \E d \in IntSweep : Start(Simplified(d), NoModel)
       \/ \E d \in RuleSweep, e \in NoModelOrNone \cup ReadyTwo :
            Start(Simplified(d), e)
       \/ \E d \in ReasonSweep,
             e \in NoModelOrNone \cup ReadyTwo \cup {Ready(Raises)} :
            Start(Simplified(d), e)
       \/ \E d \in MapSweep,
             e \in {NoModel,
                    Ready(Prediction(PScale \div 2, "Dropout", PScale))} :
            Start(Simplified(d), e)
       \/ \E r \in {Simplified(Benign), Simplified(Worst),
                    Raw(CompleteFeatures)},
             out \in AllPredictions :
            Start(r, Ready(out))
       \/ \E f \in FeatureMaps,
             e \in NoModelOrNone \cup ReadyTwo \cup {Ready(Raises)} :
            Start(Raw(f), e)
    /\ pc = "pending"
    /\ ml_features = <<>>
    /\ fallback_score = -1
    /\ fallback_raw_score = -1
    /\ response = [status |-> 0]
    /\ save_calls = <<>>
    /\ save_raised = FALSE
    /\ db = EmptyStore
    /\ now = 0
    /\ ticks = 0
    /\ answer = NoAnswer
    /\ txn = EmptyStore

Next == PredictSimplified \/ PredictRaw

Spec == Init /\ [][Next]_vars

----------------------------------------------------------------------------
(* Specification: the running service.  Requests arrive one after another, *)
(* the clock advances between them, and the dashboard queries read the     *)
(* store in between.                                                       *)

\* heuristic path, tier low, one Academic factor
LowWithOneFactor ==
    [request |-> Simplified([Benign EXCEPT !.attendance = "rarely"]),
     env |-> NoModel]

\* model-backed path, tier high, a Mental Health and a Financial factor
HighWithTwoFactors ==
    [request |-> Simplified([Benign EXCEPT !.academic_year = "3rd",
                                           !.overwhelm_frequency = "often",
                                           !.financial_stress = "high"]),
     env |-> Ready(Prediction((6 * PScale) \div 10, "Dropout",
                              (9 * PScale) \div 10))]

\* raw path, tier medium, no factors and no assessment input
RawMedium ==
    [request |-> Raw(CompleteFeatures),
     env |-> Ready(Prediction((45 * PScale) \div 100, "Non-Dropout",
                              (8 * PScale) \div 10))]

\* raw path without the model capability: rejected, nothing stored
RawRejected == [request |-> Raw(CompleteFeatures), env |-> NoModel]

Arrivals == {LowWithOneFactor, HighWithTwoFactors, RawMedium, RawRejected}

\* days by which the clock advances in one step: a week, and 53 weeks
ClockSteps == {7, 7 * 53}

\* window lengths passed to get_risk_trends: the dashboard's 8 weeks, and
\* one longer than a year
WeeksExplored == {8, 53}

\* limits passed to get_top_risk_factors (default 5)
TopLimits == {1, 5}

\* categories calculate_trend is asked about: those of the explored
\* arrivals, and one without rows
CategoriesExplored == {"Academic", "Mental Health", "Financial", "Career"}

\* limits passed to get_recent_assessments (default 10)
RecentLimits == {1, 2, 10}

InitStore ==
    /\ request = [endpoint |-> "none"]
    /\ is_loaded = FALSE
    /\ model_out = Unavailable
    /\ pc = "idle"
    /\ ml_features = <<>>
    /\ fallback_score = -1
    /\ fallback_raw_score = -1
    /\ response = [status |-> 0]
    /\ save_calls = <<>>
    /\ save_raised = FALSE
    /\ db = EmptyStore
    /\ now = 0
    /\ ticks = 0
    /\ answer = NoAnswer
    /\ txn = EmptyStore

\* no request is being handled
Idle == pc # "pending"

\* a request reaches one of the two handlers
Arrive ==
    /\ Idle
    /\ Len(db.predictions) < MaxPredictions
    /\ \E a \in Arrivals :
        /\ request' = a.request
        /\ is_loaded' = a.env.is_loaded
        /\ model_out' = a.env.model_out
    /\ pc' = "pending"
    /\ ml_features' = <<>>
    /\ fallback_score' = -1
    /\ fallback_raw_score' = -1
    /\ response' = [status |-> 0]
    /\ save_calls' = <<>>
    /\ save_raised' = FALSE
    /\ answer' = NoAnswer
    /\ UNCHANGED <<db, now, ticks, txn>>

\* time passes
Tick ==
    /\ Idle
    /\ ticks < MaxTicks
    /\ \E days \in ClockSteps : now' = now + days
    /\ ticks' = ticks + 1
    /\ answer' = NoAnswer
    /\ UNCHANGED <<request, is_loaded, model_out, pc, ml_features,
                   fallback_score, fallback_raw_score, response, save_calls,
                   save_raised, db, txn>>

\* variant: a dashboard query empties the tables it read
ReadOnly_Clearing ==
    /\ db' = EmptyStore
    /\ UNCHANGED <<request, is_loaded, model_out, pc, ml_features,
                   fallback_score, fallback_raw_score, response, save_calls,
                   save_raised, now, ticks, txn>>

\* what a dashboard query leaves alone: everything but its answer
ReadOnly ==
    UNCHANGED <<request, is_loaded, model_out, pc, ml_features,
                fallback_score, fallback_raw_score, response, save_calls,
                save_raised, db, now, ticks, txn>>

\* a query can be answered: no request is being handled, and no query was
\* answered since the last arrival or clock step (a second query would read
\* the same store at the same time)
Quiet == Idle /\ answer.query.name = "none"

DashboardStats ==
    /\ Quiet
    /\ answer' = [query |-> [name |-> "stats"], raised |-> FALSE,
                  value |-> get_dashboard_stats(db),
                  reply |-> dashboard_stats(
                                Returned(get_dashboard_stats(db)))]
    /\ ReadOnly

\* get_risk_trends with a window of `weeks` weeks (the dashboard passes 8)
RiskTrends ==
    /\ Quiet
    /\ \E weeks \in WeeksExplored, reads \in CountReads :
          answer' = [query |-> [name |-> "trends", weeks |-> weeks],
                     raised |-> FALSE,
                     value |-> get_risk_trends(db, weeks, reads),
                     reply |-> dashboard_trends(
                                   Returned(get_risk_trends(db, weeks,
                                                            reads)))]
    /\ ReadOnly

TopRiskFactors ==
    /\ Quiet
    /\ \E limit \in TopLimits, reads \in CountReads :
          \E outcome \in get_top_risk_factors(db, limit, reads) :
             answer' = [query |-> [name |-> "top-factors", limit |-> limit],
                        raised |-> outcome.raised,
                        value |-> outcome.value,
                        reply |-> top_risk_factors(outcome)]
    /\ ReadOnly

\* calculate_trend called for a category, with or without stored rows
CalculateTrend ==
    /\ Quiet
    /\ \E category \in CategoriesExplored :
          answer' = [query |-> [name |-> "trend", category |-> category],
                     raised |-> FALSE,
                     value |-> calculate_trend(db, category)]
    /\ ReadOnly

RecentAssessments ==
    /\ Quiet
    /\ \E limit \in RecentLimits :
          \E value \in get_recent_assessments(db, limit) :
             answer' = [query |-> [name |-> "recent", limit |-> limit],
                        raised |-> FALSE,
                        value |-> value,
                        reply |-> recent_assessments(Returned(value))]
    /\ ReadOnly

RiskDistribution ==
    /\ Quiet
    /\ \E reads \in CountReads :
          answer' = [query |-> [name |-> "distribution"],
                     raised |-> FALSE,
                     value |-> get_risk_distribution(db, reads),
                     reply |-> risk_distribution(
                                   Returned(get_risk_distribution(db,
                                                                  reads)))]
    /\ ReadOnly

\* the query of one of the five endpoints raises (the store is
\* unavailable, a statement fails) and the handler's except branch answers
QueryFails ==
    /\ Quiet
    /\ \E endpoint \in Endpoints :
          answer' = [query |-> [name |-> "failed", endpoint |-> endpoint],
                     raised |-> TRUE,
                     value |-> <<>>,
                     reply |-> ReplyOnFailure(endpoint)]
    /\ ReadOnly

NextStore ==
    \/ Arrive
    \/ PredictSimplified
    \/ PredictRaw
    \/ Tick
    \/ DashboardStats
    \/ RiskTrends
    \/ TopRiskFactors
    \/ CalculateTrend
    \/ RecentAssessments
    \/ RiskDistribution
    \/ QueryFails

SpecStore == InitStore /\ [][NextStore]_vars

----------------------------------------------------------------------------
(* Specification: one call of save_prediction, step by step.  The call     *)
(* yields at await db.flush(), await db.commit() and await db.rollback();  *)
(* the dashboard queries of other requests run in between and read what is *)
(* committed.                                                              *)

\* the rows save_prediction adds to `store` for a call
NewRows(store, call) ==
    LET after == save_prediction(store, call.prediction,
                                 call.assessment_input, call.endpoint)
    IN  [t \in DOMAIN store |->
            SubSeq(after[t], Len(store[t]) + 1, Len(after[t]))]

\* `rows` appended to the tables of `store`
Written(store, rows) == [t \in DOMAIN store |-> store[t] \o rows[t]]

\* variant: the flushed parent row is committed at once
AfterFlush_Autocommit(committed, rows) ==
    [db |-> Written(committed, rows), txn |-> EmptyStore]

\* db.add(new_prediction); await db.flush(): the parent row is written
\* inside the open transaction
AfterFlush(committed, rows) == [db |-> committed, txn |-> rows]

\* lines 22-33: the parent row is added and flushed, or the flush raises
SaveFlush ==
    /\ pc = "flush"
    /\ \E raises \in BOOLEAN :
          IF raises
          THEN /\ pc' = "rollback"
               /\ UNCHANGED <<db, txn>>
          ELSE LET rows == NewRows(db, save_calls[1])
                   flushed ==
                       AfterFlush(db, [EmptyStore EXCEPT
                                          !.predictions = rows.predictions])
               IN  /\ pc' = "commit"
                   /\ db' = flushed.db
                   /\ txn' = flushed.txn
    /\ UNCHANGED <<request, is_loaded, model_out, ml_features,
                   fallback_score, fallback_raw_score, response, save_calls,
                   save_raised, now, ticks, answer>>

\* lines 35-86: the child rows are added and the transaction commits, or
\* writing them or the commit raises
SaveCommit ==
    /\ pc = "commit"
    /\ LET rows == [NewRows(db, save_calls[1]) EXCEPT
                       !.predictions = txn.predictions]
       IN  \E raises \in BOOLEAN :
              IF raises
              THEN /\ pc' = "rollback"
                   /\ txn' = rows
                   /\ UNCHANGED <<db, save_raised>>
              ELSE /\ pc' = "returned"
                   /\ db' = Written(db, rows)
                   /\ txn' = EmptyStore
                   /\ save_raised' = FALSE
    /\ UNCHANGED <<request, is_loaded, model_out, ml_features,
                   fallback_score, fallback_raw_score, response, save_calls,
                   now, ticks, answer>>

\* lines 88-91: await db.rollback(); raise
SaveRollback ==
    /\ pc = "rollback"
    /\ txn' = EmptyStore
    /\ save_raised' = TRUE
    /\ pc' = "raised"
    /\ UNCHANGED <<request, is_loaded, model_out, ml_features,
                   fallback_score, fallback_raw_score, response, save_calls,
                   db, now, ticks, answer>>

\* a call of save_prediction as the handlers make it
SaveCall(result, assessment_input, endpoint) ==
    [prediction |-> result, assessment_input |-> assessment_input,
     endpoint |-> endpoint]

\* the call of the handler for an arrival (first of the scores the rounding
\* may give)
CallFor(a) ==
    IF a.request.endpoint = "raw"
    THEN SaveCall(RawResult(a.env.model_out,
                     CHOOSE r \in RoundedScore(
                         a.env.model_out.dropout_probability) : TRUE).value,
                  <<>>, "raw")
    ELSE IF UsesModel(a.env.is_loaded, a.env.model_out)
    THEN SaveCall(ModelBackedResult(a.request.data, a.env.model_out,
                     CHOOSE r \in RoundedScore(
                         a.env.model_out.dropout_probability) : TRUE).value,
                  <<a.request.data>>, "simplified")
    ELSE SaveCall(calculate_fallback_risk(a.request.data).value,
                  <<a.request.data>>, "simplified")

\* the calls explored: the three arrivals that reach a save, and the
\* heuristic result with the most child rows
SaveCalls ==
    {CallFor(a) : a \in {LowWithOneFactor, HighWithTwoFactors, RawMedium,
                         [request |-> Simplified(Worst), env |-> NoModel]}}

InitSave ==
    /\ request = [endpoint |-> "none"]
    /\ is_loaded = FALSE
    /\ model_out = Unavailable
    /\ pc = "flush"
    /\ ml_features = <<>>
    /\ fallback_score = -1
    /\ fallback_raw_score = -1
    /\ response = [status |-> 0]
    /\ save_raised = FALSE
    /\ now = 0
    /\ ticks = 0
    /\ answer = NoAnswer
    /\ txn = EmptyStore
    /\ \E call \in SaveCalls : save_calls = <<call>>
    /\ \/ db = EmptyStore
       \/ \E earlier \in SaveCalls : db = Written(EmptyStore,
                                                  NewRows(EmptyStore, earlier))

NextSave ==
    \/ SaveFlush
    \/ SaveCommit
    \/ SaveRollback
    \/ DashboardStats
    \/ RiskTrends
    \/ TopRiskFactors
    \/ CalculateTrend
    \/ RecentAssessments
    \/ RiskDistribution

SpecSave == InitSave /\ [][NextSave]_vars

----------------------------------------------------------------------------
(* Properties *)

Done == pc = "done"

Answered == Done /\ response.status = 200

Structured == request.endpoint = "simplified"

\* which branch produced the answer
ModelBacked == Structured /\ UsesModel(is_loaded, model_out)

Heuristic ==
    Structured /\ ~UsesModel(is_loaded, model_out)
    /\ ~(is_loaded /\ model_out.kind = "raise")

RawPath == request.endpoint = "raw"

\* C1: every PredictionResult, from the model-backed, the raw or the
\* heuristic path (probability = score / 100), has tier high iff
\* probability >= 0.60, medium iff 0.35 <= probability < 0.60 and low iff
\* probability < 0.35; exactly one tier applies.
C1_TierByProbability ==
    Answered =>
        LET p == response.body.dropout_probability
            tier == response.body.risk_level
        IN  /\ 0 <= p /\ p <= PScale
            /\ tier \in {"high", "medium", "low"}
            /\ (tier = "high") <=> (100 * p >= 60 * PScale)
            /\ (tier = "medium") <=>
                  (100 * p >= 35 * PScale /\ 100 * p < 60 * PScale)
            /\ (tier = "low") <=> (100 * p < 35 * PScale)
            /\ Heuristic => 100 * p = response.body.risk_score * PScale
            /\ ~Heuristic => p = model_out.dropout_probability

\* C1 witness: a heuristic result exactly at the 0.35 boundary is medium
C1_Witness ==
    /\ Answered /\ Heuristic
    /\ 100 * response.body.dropout_probability = 35 * PScale
    /\ response.body.risk_level = "medium"

\* C2 (as claimed): a structured request is answered with the model-backed
\* result iff the model is ready and predict returns a prediction; in every
\* other case it is answered with the HeuristicScorer result and is never
\* rejected.
C2_ModelElseHeuristic ==
    (Done /\ (ModelBacked \/ Heuristic)) =>
        /\ response.status = 200
        /\ ModelBacked =>
              /\ response.body.dropout_probability
                    = model_out.dropout_probability
              /\ response.body.predicted_class = model_out.predicted_class
              /\ response.body.prediction_confidence
                    = model_out.model_confidence
        /\ Heuristic =>
              /\ 2 * response.body.risk_score = fallback_score
              /\ response.body.predicted_class = "None"
              /\ 100 * response.body.prediction_confidence = 75 * PScale

\* C3: on all three result-producing paths a failure of the persistence
\* call never fails the request: the caller receives the result that was
\* handed to save_prediction, whether the insert succeeded or raised.
C3_SaveFailureSwallowed ==
    (Done /\ save_calls # <<>>) =>
        /\ response.status = 200
        /\ response.body = save_calls[Len(save_calls)].prediction

\* C3 witness: the insert of a raw result raised and the result was returned
C3_Witness ==
    /\ Done /\ RawPath /\ save_raised
    /\ response.status = 200
    /\ response.body = save_calls[1].prediction

\* every adverse contribution of the heuristic score fires (raw sum 175)
AllAdverse(data) ==
    /\ data.attendance = "never"
    /\ data.overwhelm_frequency = "always"
    /\ data.financial_stress = "very-high"
    /\ data.withdrawal_considered
    /\ data.performance_satisfaction = 0
    /\ data.advisor_interaction = "never"
    /\ data.support_network_strength = 0
    /\ (data.extracurricular_hours < 1 \/ data.extracurricular_hours > 15)
    /\ data.career_alignment = 0
    /\ data.employment_status = "full-time"

\* C4: for every answer set, out-of-vocabulary and out-of-range answers
\* included, the HeuristicScorer score lies in [0, 100]; when every adverse
\* contribution fires the score is exactly 100 and the tier is high.
C4_ScoreClamped ==
    (Done /\ Heuristic) =>
        /\ 0 <= fallback_score /\ fallback_score <= 2 * 100
        /\ AllAdverse(request.data) =>
              /\ fallback_score = 2 * 100
              /\ response.status = 200
              /\ response.body.risk_score = 100
              /\ response.body.risk_level = "high"

\* C4 witness: the all-adverse answers were scored
C4_Witness ==
    /\ Done /\ Heuristic /\ AllAdverse(request.data)
    /\ fallback_score = 2 * 100

\* C5 (as claimed): the HeuristicScorer score carried in the fallback
\* PredictionResult is an integer in 0..100 for every answer set, in
\* particular for every career_alignment value.
C5_FallbackScoreIsInteger ==
    (Done /\ Heuristic) =>
        /\ response.status = 200
        /\ response.body.risk_score \in 0..100
        /\ 2 * response.body.risk_score = fallback_score

\* C6: a PredictionResult built from a model probability p in [0, 1]
\* (model-backed and raw path) carries the integer nearest to p x 100 as its
\* score, and the score lies in 0..100.
C6_ScoreIsRoundedProbability ==
    (Answered /\ (ModelBacked \/ RawPath)) =>
        LET p == model_out.dropout_probability
            score == response.body.risk_score
        IN  /\ response.body.dropout_probability = p
            /\ score \in 0..100
            /\ 2 * Abs(score * PScale - 100 * p) <= PScale

\* C6 witness: a raw result whose probability 0.598 was rounded up to 60
C6_Witness ==
    /\ Answered /\ RawPath
    /\ 1000 * model_out.dropout_probability = 598 * PScale
    /\ response.body.risk_score = 60

\* the score boundaries 60 / 35 decide the tier
TierByScore(result) ==
    /\ (result.risk_level = "high") <=> (result.risk_score >= 60)
    /\ (result.risk_level = "medium") <=>
          (result.risk_score >= 35 /\ result.risk_score < 60)
    /\ (result.risk_level = "low") <=> (result.risk_score < 35)

Range(seq) == {seq[i] : i \in 1..Len(seq)}

\* some recommendation rule other than the Stay Connected default applies
\* to the answers on the branch that was taken
OtherRuleFired ==
    LET data == request.data
    IN  \/ response.body.risk_level = "high"
        \/ data.financial_stress \in {"high", "very-high"}
        \/ data.performance_satisfaction <= 4
        \/ data.services_used = <<>>
        \/ /\ ModelBacked
           /\ \/ data.advisor_interaction \in {"never", "once-semester"}
              \/ data.employment_status = "full-time"
              \/ /\ data.withdrawal_considered
                 /\ \E i \in 1..Len(data.withdrawal_reasons) :
                       data.withdrawal_reasons[i] \in ReasonLabels

\* C8: for every structured request that returns a PredictionResult, under
\* either rule set, the recommendation sequence is non-empty, and Stay
\* Connected is present exactly when no other rule fired, in which case it
\* is the only entry.
C8_StayConnectedOnlyAsDefault ==
    (Answered /\ Structured) =>
        LET recs == response.body.recommendations
        IN  /\ Len(recs) >= 1
            /\ (StayConnected \in Range(recs)) <=> ~OtherRuleFired
            /\ (\E i \in 1..Len(recs) : recs[i].title = "Stay Connected")
                  => recs = <<StayConnected>>

\* C8 witness: a model-backed result whose only recommendation is the default
C8_Witness ==
    /\ Answered /\ ModelBacked
    /\ response.body.recommendations = <<StayConnected>>

ReasonFactorNames ==
    {withdrawal_reason_map[r].risk_factor.factor : r \in ReasonLabels}

ReasonRecommendationTitles ==
    {withdrawal_reason_map[r].recommendation.title : r \in ReasonLabels}

\* C9: on the model-backed path the reason-derived entries of both
\* sequences are exactly the mapped entries of the listed reasons that
\* belong to the 6-entry map, one per listed reason and in listing order,
\* when withdrawal_considered is true, and there are none when it is false.
C9_ReasonEntriesInOrder ==
    (Answered /\ ModelBacked) =>
        LET data == request.data
            known == SelectSeq(data.withdrawal_reasons,
                               LAMBDA r : r \in ReasonLabels)
            count == IF data.withdrawal_considered THEN Len(known) ELSE 0
            factors == SelectSeq(response.body.risk_factors,
                                 LAMBDA f : f.factor \in ReasonFactorNames)
            recs == SelectSeq(response.body.recommendations,
                              LAMBDA r : r.title \in ReasonRecommendationTitles)
        IN  /\ Len(factors) = count
            /\ Len(recs) = count
            /\ \A i \in 1..count :
                  /\ factors[i] = withdrawal_reason_map[known[i]].risk_factor
                  /\ recs[i] = withdrawal_reason_map[known[i]].recommendation

\* C9 witness: the two reasons of the documented example were listed
C9_Witness ==
    /\ Answered /\ ModelBacked
    /\ request.data.withdrawal_considered
    /\ request.data.withdrawal_reasons
          = <<"Financial challenges", "Mental health">>
    /\ Len(response.body.risk_factors) >= 2

\* the documented rules of the feature mapper
DocumentedUnits(data) ==
    LET base == CASE data.attendance = "always" -> 50
                  [] data.attendance = "often" -> 45
                  [] data.attendance = "sometimes" -> 30
                  [] data.attendance = "rarely" -> 15
                  [] data.attendance = "never" -> 5
                  [] OTHER -> 30
        product == base * data.performance_satisfaction
    IN  IF product >= 0 THEN product \div 10 ELSE 0 - ((0 - product) \div 10)

DocumentedAge(data) ==
    (CASE data.academic_year = "1st" -> 18
       [] data.academic_year = "2nd" -> 19
       [] data.academic_year = "3rd" -> 20
       [] data.academic_year = "4th" -> 21
       [] OTHER -> 19)
    + (CASE data.employment_status = "part-time" -> 1
         [] data.employment_status = "full-time" -> 2
         [] OTHER -> 0)

\* C10: the feature mapper returns, for every answer set, exactly 8 values
\* in the fixed order, each equal to its documented rule; the documented
\* example yields [5, 5, 1, 1, 18, 0, 1, 1].
C10_FeatureMapperRules ==
    (Done /\ Structured) =>
        LET data == request.data
            paid == IF data.financial_stress \in {"none", "low"}
                    THEN 1 ELSE 0
        IN  /\ Len(ml_features) = 8
            /\ ml_features[1] = DocumentedUnits(data)
            /\ ml_features[2] = DocumentedUnits(data)
            /\ ml_features[3] = paid
            /\ ml_features[4] = paid
            /\ ml_features[5] = DocumentedAge(data)
            /\ ml_features[6] =
                  (IF data.financial_stress \in {"moderate", "high",
                                                 "very-high"}
                   THEN 1 ELSE 0)
            /\ (ml_features[7] = 0) <=> (data.study_hours \in {"8+", "5-8"})
            /\ ml_features[7] \in {0, 1}
            /\ (ml_features[8] = 2) <=>
                  (data.employment_status = "full-time"
                   /\ data.career_alignment < 5)
            /\ ml_features[8] \in {1, 2}
            /\ (/\ data.attendance = "never"
                /\ data.performance_satisfaction = 10
                /\ data.financial_stress = "none"
                /\ data.academic_year = "1st"
                /\ data.employment_status = "not-employed"
                /\ data.study_hours = "1-3")
                  => ml_features = <<5, 5, 1, 1, 18, 0, 1, 1>>

\* C10 witness: the documented example was mapped
C10_Witness ==
    /\ Done /\ Structured
    /\ request.data.attendance = "never"
    /\ request.data.study_hours = "1-3"
    /\ request.data.performance_satisfaction = 10
    /\ ml_features = <<5, 5, 1, 1, 18, 0, 1, 1>>

\* the caller received a rejection and no PredictionResult
Rejected == Done /\ response.status # 200 /\ "body" \notin DOMAIN response

\* nothing was inserted, or attempted to be inserted, for the request
NothingInserted == save_calls = <<>> /\ db = EmptyStore

\* the required feature names the raw request does not carry
AbsentNames == FeatureNames \ DOMAIN request.features

\* C11: a raw-feature request is rejected, and no prediction record is
\* inserted for it, whenever the model capability is not ready or at least
\* one of the 8 required feature names is absent from the feature map; a
\* missing-key rejection names exactly the absent required names; the raw
\* path never substitutes a heuristic result.
C11_RawFailsFast ==
    (Done /\ RawPath) =>
        /\ Cardinality(FeatureNames) = 8
        /\ (~is_loaded \/ AbsentNames # {}) =>
              /\ Rejected
              /\ NothingInserted
              /\ response.status \in {400, 503}
        /\ response.status = 503 <=> ~is_loaded
        /\ response.status = 400 <=> (is_loaded /\ AbsentNames # {})
        /\ response.status = 400 =>
              /\ Range(response.detail) = AbsentNames
              /\ Len(response.detail) = Cardinality(AbsentNames)
        /\ fallback_score = -1
        /\ Answered =>
              /\ response.body.risk_factors = <<>>
              /\ response.body.recommendations = <<>>
              /\ response.body.dropout_probability =
                     model_out.dropout_probability

\* C11 witness: a ready model, two required names absent, both reported
C11_Witness ==
    /\ Done /\ RawPath /\ is_loaded
    /\ Cardinality(AbsentNames) = 2
    /\ response.status = 400
    /\ Len(response.detail) = 2

\* a step of scoring failed unexpectedly: the model call raised, or the
\* result could not be constructed from the heuristic score
ScoringFailed ==
    \/ /\ Structured /\ is_loaded /\ model_out.kind = "raise"
    \/ /\ RawPath /\ is_loaded /\ AbsentNames = {}
       /\ model_out.kind = "raise"
    \/ /\ Heuristic /\ fallback_score % 2 = 1

\* C12: if any step of scoring fails unexpectedly on either entry path, the
\* caller receives a generic internal-failure rejection and no
\* PredictionResult, and no prediction record is inserted for that request.
C12_UnexpectedFailureRejected ==
    (Done /\ ScoringFailed) =>
        /\ Rejected
        /\ response.status = 500
        /\ response.detail = "Prediction failed"
        /\ NothingInserted

\* C12 witness: the model call raised on the raw path
C12_Witness ==
    /\ Done /\ RawPath /\ ScoringFailed
    /\ response.status = 500

\* contribution of an enumerated answer: its listed points, 0 when unlisted
Points(table, given) ==
    IF given \in DOMAIN table THEN table[given] ELSE 0

\* the ten documented contributions, in half points
DocumentedContributions(data) ==
    << 2 * Points([always |-> 0, often |-> 5, sometimes |-> 15,
                   rarely |-> 25, never |-> 35], data.attendance),
       2 * Points([never |-> 0, rarely |-> 5, sometimes |-> 10,
                   often |-> 20, always |-> 30], data.overwhelm_frequency),
       2 * Points(("none" :> 0) @@ ("low" :> 5) @@ ("moderate" :> 10) @@
                  ("high" :> 20) @@ ("very-high" :> 25),
                  data.financial_stress),
       IF data.withdrawal_considered THEN 30 ELSE 0,
       IF data.performance_satisfaction < 10
       THEN 4 * (10 - data.performance_satisfaction) ELSE 0,
       2 * Points(("never" :> 10) @@ ("once-semester" :> 5) @@
                  ("2-3-semester" :> 2) @@ ("monthly" :> 0),
                  data.advisor_interaction),
       IF data.support_network_strength < 10
       THEN 2 * (10 - data.support_network_strength) ELSE 0,
       IF data.extracurricular_hours < 1 \/ data.extracurricular_hours > 15
       THEN 10 ELSE 0,
       IF data.career_alignment < 10
       THEN 3 * (10 - data.career_alignment) ELSE 0,
       2 * Points(("full-time" :> 10) @@ ("part-time" :> 5),
                  data.employment_status) >>

\* C18: before clamping, the HeuristicScorer score is the sum of the ten
\* documented contributions (attendance, overwhelm, financial stress,
\* withdrawal considered, performance satisfaction, advisor, support
\* network, extracurricular hours, career alignment, employment); an
\* out-of-vocabulary enum value contributes 0.
C18_SumOfTenContributions ==
    (Done /\ Heuristic) =>
        LET c == DocumentedContributions(request.data)
        IN  /\ Len(c) = 10
            /\ fallback_raw_score =
                 c[1] + c[2] + c[3] + c[4] + c[5] + c[6] + c[7] + c[8]
                 + c[9] + c[10]

\* C18 witness: every contribution at its largest listed value, 175 points
\* before clamping
C18_Witness ==
    /\ Done /\ Heuristic
    /\ request.data.employment_status = "full-time"
    /\ fallback_raw_score = 2 * 175
    /\ fallback_score = 2 * 100

\* the entries only the model-backed rule set emits
RicherOnlyFactors ==
    {WeakSupportNetwork, FullTimeEmployment}
    \cup {withdrawal_reason_map[r].risk_factor : r \in ReasonLabels}

RicherOnlyRecommendations ==
    {ScheduleAdvisorMeeting, TimeManagementSupport}
    \cup {withdrawal_reason_map[r].recommendation : r \in ReasonLabels}

Without(entries, removed) ==
    SelectSeq(entries, LAMBDA e : e \notin removed)

\* what the model-backed rule set emits for the answers and the tier of the
\* heuristic result, with the richer-only entries removed
StrippedModelFactors ==
    Without(ModelAllRiskFactors(request.data), RicherOnlyFactors)

StrippedModelRecommendations ==
    Without(ModelAllRecommendations(request.data, response.body.risk_level),
            RicherOnlyRecommendations)

\* a heuristic result has no Social, Personal or Career factor and at most
\* four factors
LeanFactorsOnly ==
    /\ \A f \in Range(response.body.risk_factors) :
          f.category \notin {"Social", "Personal", "Career"}
    /\ Len(response.body.risk_factors) <= 4

\* C19 as stated: for the same answers and the same tier, the heuristic-path
\* output equals the model-path output with the Social and Personal factors,
\* the advisor-meeting and time-management recommendations and all
\* withdrawal-reason entries removed; hence a heuristic-path result never
\* contains a Social, Personal or Career factor nor more than 4 factors.
C19_HeuristicIsStrippedModel ==
    (Answered /\ Heuristic) =>
        /\ response.body.risk_factors = StrippedModelFactors
        /\ response.body.recommendations = StrippedModelRecommendations
        /\ LeanFactorsOnly

\* C19 amended: the factors are the stripped model-path factors; the
\* recommendations are the stripped model-path recommendations, except that
\* when stripping leaves none (the model-backed rule set emitted richer-only
\* entries and nothing else) the heuristic output is the single Stay
\* Connected default; a heuristic result has no Social, Personal or Career
\* factor and at most 4 factors.
C19_StrippedModelUpToDefault ==
    (Answered /\ Heuristic) =>
        /\ response.body.risk_factors = StrippedModelFactors
        /\ response.body.recommendations =
              (IF StrippedModelRecommendations = <<>>
               THEN <<StayConnected>>
               ELSE StrippedModelRecommendations)
        /\ LeanFactorsOnly

\* C19 witness: the model-backed rule set emits richer-only recommendations
\* and richer-only factors for the answers of a heuristic result, and
\* stripping leaves no recommendation
C19_Witness ==
    /\ Answered /\ Heuristic
    /\ ModelAllRecommendations(request.data, response.body.risk_level) # <<>>
    /\ StrippedModelRecommendations = <<>>
    /\ Len(ModelAllRiskFactors(request.data)) >
          Len(response.body.risk_factors)
    /\ response.body.recommendations = <<StayConnected>>

\* the last event was the named dashboard query; db and now are those the
\* query read
Answers(name) == answer.query.name = name

\* number of stored prediction records of a tier
StoredOfTier(tier) ==
    Cardinality({i \in DOMAIN db.predictions :
                    db.predictions[i].risk_level = tier})

\* `rounded` is a nearest integer to num / den
NearestTo(rounded, num, den) ==
    /\ 2 * (rounded * den - num) <= den
    /\ 2 * (num - rounded * den) <= den

\* C13: after any sequence of inserts, the stats query returns total =
\* number of stored records, each tier count = number of stored records of
\* that tier, each tier percentage = count / total x 100 rounded to 2
\* decimals, and the average of the stored scores rounded to 1 decimal; on
\* an empty collection it returns total 0, all counts 0, all percentages 0.0
\* and average 0.0.
C13_StatsMatchStore ==
    Answers("stats") =>
        LET stats == answer.value
            total == Len(db.predictions)
            scores == [i \in DOMAIN db.predictions |->
                          db.predictions[i].risk_score]
        IN  /\ stats.total_assessments = total
            /\ stats.high_risk_count = StoredOfTier("high")
            /\ stats.medium_risk_count = StoredOfTier("medium")
            /\ stats.low_risk_count = StoredOfTier("low")
            /\ total > 0 =>
                  /\ NearestTo(stats.high_risk_percentage,
                               StoredOfTier("high") * 100 * 100, total)
                  /\ NearestTo(stats.medium_risk_percentage,
                               StoredOfTier("medium") * 100 * 100, total)
                  /\ NearestTo(stats.low_risk_percentage,
                               StoredOfTier("low") * 100 * 100, total)
                  /\ NearestTo(stats.average_risk_score,
                               SumSeq(scores) * 10, total)
            /\ total = 0 =>
                  /\ stats.high_risk_count = 0
                  /\ stats.medium_risk_count = 0
                  /\ stats.low_risk_count = 0
                  /\ stats.high_risk_percentage = 0
                  /\ stats.medium_risk_percentage = 0
                  /\ stats.low_risk_percentage = 0
                  /\ stats.average_risk_score = 0

\* C13 witness: three stored records, one high (33.33 %) and two low
\* (66.67 %), scores 60, 25, 25 with average 36.7
C13_Witness ==
    /\ Answers("stats")
    /\ answer.value.total_assessments = 3
    /\ answer.value.high_risk_percentage = 3333
    /\ answer.value.low_risk_percentage = 6667
    /\ answer.value.average_risk_score = 367

\* number of stored risk-factor rows of a category
StoredOfCategory(category) ==
    Cardinality({i \in DOMAIN db.risk_factors :
                    db.risk_factors[i].category = category})

StoredCategories ==
    {db.risk_factors[i].category : i \in DOMAIN db.risk_factors}

\* what C14 says of a top-risk-factors answer apart from the total of the
\* percentages: at most K entries, distinct categories, those with the
\* largest stored counts in non-increasing order of count, and an empty
\* list when there are no factor rows
TopFactorsSelected ==
    LET top == answer.value
        K == answer.query.limit
        returned == {top[i].name : i \in DOMAIN top}
    IN  /\ Len(top) = Min(K, Cardinality(StoredCategories))
        /\ returned \subseteq StoredCategories
        /\ Cardinality(returned) = Len(top)
        /\ \A i \in DOMAIN top, j \in DOMAIN top :
              i < j => StoredOfCategory(top[i].name)
                          >= StoredOfCategory(top[j].name)
        /\ \A c \in StoredCategories \ returned, i \in DOMAIN top :
              StoredOfCategory(c) <= StoredOfCategory(top[i].name)
        /\ db.risk_factors = <<>> => top = <<>>

\* sum of the percentages of a top-risk-factors answer, in tenths
PercentageTotal ==
    SumSeq([i \in DOMAIN answer.value |-> answer.value[i].percentage])

TopFactorsWhenReturned ==
    (Answers("top-factors") /\ ~answer.raised) =>
        LET top == answer.value
            considered ==
                SumSeq([i \in DOMAIN top |-> StoredOfCategory(top[i].name)])
        IN  /\ TopFactorsSelected
            /\ \A i \in DOMAIN top :
                  NearestTo(top[i].percentage,
                            StoredOfCategory(top[i].name) * 100 * 10,
                            considered)
            /\ top # <<>> =>
                  /\ 2 * (PercentageTotal - 100 * 10) <= Len(top)
                  /\ 2 * (100 * 10 - PercentageTotal) <= Len(top)

\* age in days of the parent record of a stored risk-factor row
AgeOfFactor(i) ==
    now - db.predictions[db.risk_factors[i].prediction_id].created_at

\* stored factor rows of a category whose age lies in lo..hi
FactorsAged(category, lo, hi) ==
    Cardinality({i \in DOMAIN db.risk_factors :
                    /\ db.risk_factors[i].category = category
                    /\ lo <= AgeOfFactor(i) /\ AgeOfFactor(i) <= hi})

\* `trend` compares the rows of the category aged up to 7 days with those
\* aged more than 7 and up to 14 days
TrendCompares(category, trend) ==
    LET trailing == FactorsAged(category, 0, 7)
        preceding == FactorsAged(category, 8, 14)
    IN  /\ trend \in {"up", "down", "stable"}
        /\ trend = "up" <=> trailing > preceding
        /\ trend = "down" <=> trailing < preceding
        /\ trend = "stable" <=> trailing = preceding
        /\ FactorsAged(category, 0, 14) = 0 => trend = "stable"

\* C15: for a category, the trend is 'up' iff the number of its factor rows
\* whose parent record was created in the trailing 7 days is strictly
\* greater than the number created in the preceding 7 days, 'down' iff
\* strictly less and 'stable' iff equal; a row exactly 7 days old counts in
\* the trailing window only, rows older than 14 days count in neither, and
\* a category with no rows in the last 14 days is 'stable'.
C15_TrendComparesTwoWeeks ==
    /\ Answers("trend") =>
          TrendCompares(answer.query.category, answer.value)
    /\ (Answers("top-factors") /\ ~answer.raised) =>
          \A i \in DOMAIN answer.value :
             TrendCompares(answer.value[i].name, answer.value[i].trend)

\* C15 witness: a category with one row exactly 7 days old and one exactly
\* 14 days old is stable
C15_Witness ==
    /\ Answers("trend")
    /\ FactorsAged(answer.query.category, 7, 7) = 1
    /\ FactorsAged(answer.query.category, 14, 14) = 1
    /\ FactorsAged(answer.query.category, 0, 14) = 2
    /\ answer.value = "stable"

\* stored records created within the last `weeks` weeks
InWindow(weeks) ==
    {i \in DOMAIN db.predictions :
        now - db.predictions[i].created_at <= 7 * weeks}

\* in-window records of a year-week and a tier
InWindowOf(weeks, week_num, tier) ==
    Cardinality({i \in InWindow(weeks) :
                    /\ WeekNum(db.predictions[i].created_at) = week_num
                    /\ db.predictions[i].risk_level = tier})

\* every count of a trends answer is a number
TrendCountsAreNumbers ==
    \A i \in DOMAIN answer.value :
        /\ answer.value[i].high_risk.is_number
        /\ answer.value[i].medium_risk.is_number
        /\ answer.value[i].low_risk.is_number

\* the answer of the trends query has one bucket per distinct year-week
\* holding an in-window record, in chronological order, with the counts of
\* the in-window records of that year-week, and the counts add up to the
\* number of in-window records
TrendsMatchStore ==
    LET buckets == answer.value
        weeks == answer.query.weeks
        year_weeks ==
            {WeekNum(db.predictions[i].created_at) : i \in InWindow(weeks)}
        Position(yw) ==
            1 + Cardinality({other \in year_weeks : WeekNumBefore(other, yw)})
    IN  /\ Len(buckets) = Cardinality(year_weeks)
        /\ \A yw \in year_weeks :
              /\ Position(yw) \in DOMAIN buckets
              /\ buckets[Position(yw)].week = yw.week
              /\ buckets[Position(yw)].high_risk =
                    Number(InWindowOf(weeks, yw, "high"))
              /\ buckets[Position(yw)].medium_risk =
                    Number(InWindowOf(weeks, yw, "medium"))
              /\ buckets[Position(yw)].low_risk =
                    Number(InWindowOf(weeks, yw, "low"))
        /\ TrendCountsAreNumbers
        /\ SumSeq([i \in DOMAIN buckets |->
                      buckets[i].high_risk.n + buckets[i].medium_risk.n
                      + buckets[i].low_risk.n])
             = Cardinality(InWindow(weeks))

TrendsOfDashboardMatchStore ==
    (Answers("trends") /\ answer.query.weeks = 8 /\ TrendCountsAreNumbers)
        => TrendsMatchStore

\* C17: the recent-records query with limit K returns exactly min(K, total)
\* entries, each a distinct stored record, in non-increasing order of
\* creation time, and no stored record left out is newer than a returned
\* one.
C17_RecentAreTheNewest ==
    Answers("recent") =>
        LET recent == answer.value
            K == answer.query.limit
            returned == {recent[i].id : i \in DOMAIN recent}
        IN  /\ Len(recent) = Min(K, Len(db.predictions))
            /\ returned \subseteq DOMAIN db.predictions
            /\ Cardinality(returned) = Len(recent)
            /\ \A i \in DOMAIN recent :
                  /\ db.predictions[recent[i].id].id = recent[i].id
                  /\ recent[i].date = db.predictions[recent[i].id].created_at
                  /\ recent[i].risk = db.predictions[recent[i].id].risk_level
            /\ \A i \in DOMAIN recent, j \in DOMAIN recent :
                  i < j => recent[i].date >= recent[j].date
            /\ \A left_out \in DOMAIN db.predictions \ returned :
                  \A i \in DOMAIN recent :
                     db.predictions[left_out].created_at <= recent[i].date

\* C17 witness: three records stored at three different times, the two
\* newest returned for K = 2
C17_Witness ==
    /\ Answers("recent")
    /\ answer.query.limit = 2
    /\ Len(db.predictions) = 3
    /\ Len(answer.value) = 2
    /\ answer.value[1].date > answer.value[2].date
    /\ answer.value[2].date > db.predictions[1].created_at

\* the committed store after the save in progress completes
StoreAfterSave ==
    save_prediction(db, save_calls[1].prediction,
                    save_calls[1].assessment_input, save_calls[1].endpoint)

\* a recent-records answer shows every structured record with the academic
\* year of its assessment input
RecentShowCompleteRecords ==
    Answers("recent") =>
        \A i \in DOMAIN answer.value :
            db.predictions[answer.value[i].id].endpoint = "simplified" =>
                answer.value[i].type # "N/A"

\* C20: save_prediction is all-or-nothing.  The committed collection changes
\* in one step only, the successful commit, which installs the parent record
\* together with all its child rows; a save that fails leaves the committed
\* collection as it was before the call, keeps no row of its transaction and
\* raises to the caller; a query running between the steps of a save never
\* observes a prediction record with only some of its child rows.
C20_SaveAllOrNothing ==
    [][ /\ db' # db =>
              /\ pc = "commit" /\ pc' = "returned"
              /\ db' = StoreAfterSave
              /\ ~save_raised'
        /\ pc' = "raised" =>
              /\ save_raised'
              /\ db' = db
              /\ txn' = EmptyStore
        /\ answer'.query.name # answer.query.name =>
              /\ db' = db
              /\ RecentShowCompleteRecords'
      ]_vars

\* C20 witness: the commit of a save with factor rows failed after its
\* parent row was flushed; a recent-records query answered from the
\* committed records alone
C20_Witness ==
    /\ pc = "rollback"
    /\ txn.predictions # <<>>
    /\ txn.risk_factors # <<>>
    /\ db.predictions # <<>>
    /\ Answers("recent")
    /\ Len(answer.value) = Len(db.predictions)

----------------------------------------------------------------------------
(* Persistence from the handlers *)

\* C21: every request that returns a PredictionResult makes exactly one
\* insert attempt, for the result it returns (so after the result is
\* computed and before it is returned); no attempt precedes the handler, a
\* failed attempt is not retried and leaves the store as it was, and no
\* request makes more than one attempt (never one on the model branch and
\* another on the fallback branch).
C21_OneInsertAttempt ==
    /\ pc = "pending" => save_calls = <<>>
    /\ Len(save_calls) <= 1
    /\ Answered =>
          /\ Len(save_calls) = 1
          /\ save_calls[1].prediction = response.body
          /\ save_calls[1].endpoint = request.endpoint
          /\ Len(save_calls[1].assessment_input) =
                 (IF Structured THEN 1 ELSE 0)
    /\ save_raised => Len(save_calls) = 1 /\ db = EmptyStore

\* the model-backed branch answered although its only insert attempt failed
C21_Witness ==
    /\ Answered
    /\ ModelBacked
    /\ save_raised
    /\ Len(save_calls) = 1

----------------------------------------------------------------------------
(* Order of emission *)

\* position of `name` in `order`
Rank(order, name) == CHOOSE i \in DOMAIN order : order[i] = name

\* `names` is: some of `order`, each at most once and in the order of
\* `order`; then any number of names of `derived`; then at most one name
\* of `closing`
InRuleOrder(names, order, derived, closing) ==
    \E k \in 0..Len(names), m \in 0..Len(names) :
        /\ k <= m
        /\ Len(names) - m <= 1
        /\ \A i \in 1..k : names[i] \in Range(order)
        /\ \A i \in 1..(k - 1) :
              Rank(order, names[i]) < Rank(order, names[i + 1])
        /\ \A i \in (k + 1)..m : names[i] \in derived
        /\ \A i \in (m + 1)..Len(names) : names[i] \in closing

\* the risk-factor rules in the order claimed
FactorRuleOrder ==
    <<"Low Class Attendance", "Academic Overwhelm", "Financial Stress",
      "Withdrawal Consideration", "Weak Support Network",
      "Full-time Employment">>

\* the recommendation rules in the order of the documented rule list:
\* financial aid before counseling
ListedRecommendationOrder ==
    <<"Financial Aid Office", "Mental Health Support", "Academic Tutoring",
      "Schedule Advisor Meeting", "Time Management Support">>

\* the recommendation rules in the order the handlers evaluate them:
\* counseling before financial aid
EvaluatedRecommendationOrder ==
    <<"Mental Health Support", "Financial Aid Office", "Academic Tutoring",
      "Schedule Advisor Meeting", "Time Management Support">>

FactorNamesOf(result) ==
    [i \in 1..Len(result.risk_factors) |-> result.risk_factors[i].factor]

TitlesOf(result) ==
    [i \in 1..Len(result.recommendations) |->
        result.recommendations[i].title]

\* both sequences of the answer follow the rule order, the recommendation
\* rules taken in `recommendation_order`
EmittedInOrder(recommendation_order) ==
    (Answered /\ Structured) =>
        /\ InRuleOrder(FactorNamesOf(response.body), FactorRuleOrder,
                       ReasonFactorNames, {})
        /\ \/ TitlesOf(response.body) = <<"Stay Connected">>
           \/ InRuleOrder(TitlesOf(response.body), recommendation_order,
                          ReasonRecommendationTitles,
                          {"Explore Campus Support Services"})

\* C23 as stated: the risk factors are ordered attendance, overwhelm,
\* financial stress, withdrawal, weak support network, full-time
\* employment, then reason-derived factors; the recommendations are ordered
\* financial aid, immediate counseling, academic tutoring, advisor meeting,
\* time management, reason-derived recommendations, explore support
\* services, with Stay Connected only when nothing else was emitted.
C23_EmittedInListedOrder == EmittedInOrder(ListedRecommendationOrder)

\* C23 amended: the same, with the recommendations ordered immediate
\* counseling (tier high) first and financial aid second, then academic
\* tutoring, advisor meeting, time management, reason-derived
\* recommendations and explore support services.
C23_EmittedInEvaluatedOrder == EmittedInOrder(EvaluatedRecommendationOrder)

\* a model-backed answer of tier high in which every rule of both sequences
\* fired and two reasons were listed
C23_Witness ==
    /\ Answered /\ ModelBacked
    /\ Len(response.body.risk_factors) = Len(FactorRuleOrder) + 2
    /\ Len(response.body.recommendations)
          = Len(EvaluatedRecommendationOrder) + 2 + 1
    /\ response.body.recommendations[1] = MentalHealthSupport
    /\ response.body.recommendations[2] = FinancialAidOffice

----------------------------------------------------------------------------
(* What a successful save stores *)

\* the rows of `after` behind the rows of `before`
Added(before, after) == SubSeq(after, Len(before) + 1, Len(after))

\* a handler answered with a result whose save succeeded
SavedStep ==
    /\ pc = "pending" /\ pc' = "done"
    /\ response'.status = 200
    /\ ~save_raised'

\* the store holds the rows it held, one new prediction record carrying
\* `result`, one factor row and one recommendation row per entry of the
\* result in the same order, and one assessment-input row iff the request
\* was structured, all referencing the new record
StoresResult(before, after, result, structured) ==
    LET parents == Added(before.predictions, after.predictions)
        inputs == Added(before.assessment_inputs, after.assessment_inputs)
        factors == Added(before.risk_factors, after.risk_factors)
        recs == Added(before.recommendations, after.recommendations)
    IN  /\ \A t \in DOMAIN before :
              SubSeq(after[t], 1, Len(before[t])) = before[t]
        /\ Len(parents) = 1
        /\ parents[1].id \notin
              {before.predictions[i].id : i \in DOMAIN before.predictions}
        /\ parents[1].risk_level = result.risk_level
        /\ parents[1].risk_score = result.risk_score
        /\ parents[1].dropout_probability = result.dropout_probability
        /\ parents[1].prediction_confidence = result.prediction_confidence
        /\ Len(factors) = Len(result.risk_factors)
        /\ \A i \in DOMAIN factors :
              /\ factors[i].prediction_id = parents[1].id
              /\ factors[i].category = result.risk_factors[i].category
              /\ factors[i].factor = result.risk_factors[i].factor
              /\ factors[i].impact = result.risk_factors[i].impact
        /\ Len(recs) = Len(result.recommendations)
        /\ \A i \in DOMAIN recs :
              /\ recs[i].prediction_id = parents[1].id
              /\ recs[i].rec_type = result.recommendations[i].type
              /\ recs[i].title = result.recommendations[i].title
              /\ recs[i].urgency = result.recommendations[i].urgency
              /\ recs[i].contact = result.recommendations[i].contact
        /\ Len(inputs) = (IF structured THEN 1 ELSE 0)
        /\ \A i \in DOMAIN inputs : inputs[i].prediction_id = parents[1].id

\* every child row references an existing prediction record, and no
\* prediction record has two assessment-input rows
ChildrenReferToParents(store) ==
    LET ids == {store.predictions[i].id : i \in DOMAIN store.predictions}
    IN  /\ \A t \in {"assessment_inputs", "risk_factors", "recommendations"} :
              \A i \in DOMAIN store[t] : store[t][i].prediction_id \in ids
        /\ \A i, j \in DOMAIN store.assessment_inputs :
              store.assessment_inputs[i].prediction_id
                 = store.assessment_inputs[j].prediction_id => i = j

\* C25: after a successful save of a PredictionResult the store holds
\* exactly one new prediction record carrying the result's tier, score,
\* probability and confidence, as many factor rows and recommendation rows
\* referencing it as the result has entries (same order and contents), and
\* exactly one assessment-input row iff the request was structured; in
\* every reachable state each child row references an existing prediction
\* record and each prediction record has at most one assessment-input row.
C25_SaveStoresTheResult ==
    /\ ChildrenReferToParents(db)
    /\ [][ /\ SavedStep =>
                 StoresResult(db, db', response'.body,
                              request.endpoint = "simplified")
           /\ ChildrenReferToParents(db')
         ]_vars

\* a structured result with two factor rows was saved behind a raw record
C25_Witness ==
    /\ Answered /\ Structured /\ ~save_raised
    /\ Len(db.predictions) = 2
    /\ db.predictions[1].endpoint = "raw"
    /\ Len(db.assessment_inputs) = 1
    /\ Len(db.risk_factors) = 2
    /\ Len(db.risk_factors) = Len(response.body.risk_factors)

----------------------------------------------------------------------------
(* The store under requests and queries *)

\* a dashboard query, or a failing one, was answered in this step
QueryStep == answer.query.name = "none" /\ answer'.query.name # "none"

\* C22: over any interleaving of prediction requests and dashboard queries
\* the stored collection only grows: every step leaves each existing row of
\* the four tables in place and unchanged, and each aggregation query
\* (stats, trends, top risk factors, recent records, distribution) leaves
\* the collection unchanged.
C22_StoreOnlyGrows ==
    [][ /\ \A t \in DOMAIN db :
              /\ Len(db'[t]) >= Len(db[t])
              /\ SubSeq(db'[t], 1, Len(db[t])) = db[t]
        /\ QueryStep => db' = db
      ]_vars

\* the distribution query was answered over a store that requests had
\* filled, child rows included
C22_Witness ==
    /\ Answers("distribution")
    /\ Len(db.predictions) >= 2
    /\ Len(db.risk_factors) >= 1
    /\ Len(db.assessment_inputs) >= 1

\* every stored tier is low, medium or high, and the tier counts of the
\* stats answer add up to its total
TiersPartitionTotal ==
    /\ \A i \in DOMAIN db.predictions :
          db.predictions[i].risk_level \in {"low", "medium", "high"}
    /\ Answers("stats") =>
          answer.value.high_risk_count + answer.value.medium_risk_count
             + answer.value.low_risk_count = answer.value.total_assessments

\* the distribution answer carries the three tier counts of the stats
\* query on the same collection
DistributionIsStatsCounts ==
    LET stats == get_dashboard_stats(db)
    IN  /\ answer.value.high = Number(stats.high_risk_count)
        /\ answer.value.medium = Number(stats.medium_risk_count)
        /\ answer.value.low = Number(stats.low_risk_count)

DistributionOfNumbersMatchesStats ==
    Answers("distribution") =>
        /\ (/\ answer.value.high.is_number
            /\ answer.value.medium.is_number
            /\ answer.value.low.is_number) => DistributionIsStatsCounts
        /\ db.predictions = <<>> =>
              /\ DistributionIsStatsCounts
              /\ answer.reply.body = ZeroDistribution

\* the stored prediction records that came from the raw path
RawRecords ==
    {i \in DOMAIN db.predictions : db.predictions[i].endpoint = "raw"}

\* a raw result has no factors and no recommendations, and a raw record
\* has no child row in any table
RawStoredBare ==
    /\ (Answered /\ RawPath) =>
          /\ response.body.risk_factors = <<>>
          /\ response.body.recommendations = <<>>
          /\ ~save_raised =>
                db.predictions[Len(db.predictions)].endpoint = "raw"
    /\ \A i \in RawRecords :
          \A t \in {"assessment_inputs", "risk_factors", "recommendations"} :
              \A j \in DOMAIN db[t] :
                  db[t][j].prediction_id # db.predictions[i].id

\* the stats total counts every record, raw ones included
RawCountedByStats ==
    Answers("stats") =>
        /\ answer.value.total_assessments = Len(db.predictions)
        /\ \A i \in RawRecords :
              LET tier == db.predictions[i].risk_level
                  counted == CASE tier = "high" ->
                                    answer.value.high_risk_count
                               [] tier = "medium" ->
                                    answer.value.medium_risk_count
                               [] OTHER -> answer.value.low_risk_count
              IN  counted >= Cardinality(
                      {j \in RawRecords :
                          db.predictions[j].risk_level = tier})

\* every raw record inside the window is counted in the bucket of its week
RawCountedByTrends ==
    Answers("trends") =>
        \A i \in RawRecords :
            LET p == db.predictions[i]
            IN  p.created_at >= now - 7 * answer.query.weeks =>
                  \E k \in DOMAIN answer.value :
                      LET bucket == answer.value[k]
                          counted == CASE p.risk_level = "high" ->
                                            bucket.high_risk
                                       [] p.risk_level = "medium" ->
                                            bucket.medium_risk
                                       [] OTHER -> bucket.low_risk
                      IN  /\ bucket.week = WeekKey(WeekNum(p.created_at))
                          /\ counted.is_number
                          /\ counted.n >= 1

\* every raw record is counted in the distribution entry of its tier
RawCountedByDistribution ==
    Answers("distribution") =>
        \A i \in RawRecords :
            LET counted == answer.value[db.predictions[i].risk_level]
            IN  counted.is_number /\ counted.n >= 1

\* a record appears at most once in the recent-records answer, and once
\* when the limit does not cut it off; a raw record is labelled N/A and a
\* structured record with its academic year
RawListedOnce ==
    Answers("recent") =>
        /\ \A i \in DOMAIN db.predictions :
              LET shown == {k \in DOMAIN answer.value :
                               answer.value[k].id = db.predictions[i].id}
              IN  /\ Cardinality(shown) <= 1
                  /\ answer.query.limit >= Len(db.predictions) =>
                        Cardinality(shown) = 1
        /\ \A k \in DOMAIN answer.value :
              LET p == db.predictions[answer.value[k].id]
                  inputs == SelectSeq(db.assessment_inputs,
                                LAMBDA a : a.prediction_id = p.id)
              IN  IF p.endpoint = "raw"
                  THEN answer.value[k].type = "N/A"
                  ELSE /\ Len(inputs) = 1
                       /\ answer.value[k].type = inputs[1].input.academic_year

RawRecordsStoredAndListed ==
    /\ RawStoredBare
    /\ RawCountedByStats
    /\ RawListedOnce

\* a raw record is listed among the recent records beside a structured one
RawRecordsListed ==
    /\ Answers("recent")
    /\ RawRecords # {}
    /\ \E k \in DOMAIN answer.value : answer.value[k].type = "N/A"
    /\ \E k \in DOMAIN answer.value : answer.value[k].type # "N/A"

----------------------------------------------------------------------------
(* Admin endpoints *)

\* one of the five endpoints answered in the last step
Replied == answer.query.name \in Endpoints \cup {"failed"}

\* what the handler of `endpoint` answers over an empty collection
ReplyOnEmpty(endpoint) ==
    CASE endpoint = "stats" ->
            dashboard_stats(Returned(get_dashboard_stats(EmptyStore)))
      [] endpoint = "trends" ->
            dashboard_trends(
                Returned(get_risk_trends(EmptyStore, 8, "method")))
      [] endpoint = "top-factors" ->
            top_risk_factors(
                CHOOSE outcome \in
                    get_top_risk_factors(EmptyStore, 5, "method") : TRUE)
      [] endpoint = "recent" ->
            recent_assessments(Returned(
                CHOOSE value \in get_recent_assessments(EmptyStore, 10) :
                    TRUE))
      [] endpoint = "distribution" ->
            risk_distribution(
                Returned(get_risk_distribution(EmptyStore, "method")))

\* C27: each of the five aggregate endpoints never returns an error to the
\* caller: it always answers with a response, and when its aggregation
\* query fails the response is the zero/empty one it gives for an empty
\* collection (all-zero stats, empty trend list, empty factor list, empty
\* assessment list, zero distribution).
C27_EndpointsNeverFail ==
    Replied =>
        LET endpoint == IF answer.query.name = "failed"
                        THEN answer.query.endpoint
                        ELSE answer.query.name
        IN  /\ answer.reply.status = 200
            /\ answer.raised =>
                  /\ answer.reply = ReplyOnEmpty(endpoint)
                  /\ endpoint = "stats" => answer.reply.body = ZeroStats
                  /\ endpoint = "distribution" =>
                        answer.reply.body = ZeroDistribution
                  /\ endpoint \in {"trends", "top-factors", "recent"} =>
                        answer.reply.body = <<>>

\* the distribution query failed over a collection that is not empty
C27_Witness ==
    /\ answer.query.name = "failed"
    /\ answer.query.endpoint = "distribution"
    /\ answer.raised
    /\ Len(db.predictions) >= 1

====
